---------------------------- MODULE Spec2Model ----------------------------
(***************************************************************************)
(* Battleship: the board model (game_model.py), the coordinate validators  *)
(* (protocol.py, client.py, server.py) and the server's session loop       *)
(* (server.py), as state machines.                                         *)
(*                                                                         *)
(* Strings are sequences of one-character strings, so that len(), s[i],    *)
(* upper(), "in" and the regular expressions are computed as the code      *)
(* computes them.                                                          *)
(***************************************************************************)
EXTENDS Integers, Sequences, FiniteSets, TLC

VARIABLES
    gameboard,    \* game_model.GameBoard: [board, shot_count, hit_count, ships]
    gb_pc,        \* where the GameBoard harness is: "idle", "position", "shots"
    gb_ship,      \* position_ships: index (1..4) of the ship being placed
    gb_calls,     \* number of process_shot calls made so far
    gb_call,      \* the latest process_shot call: [coord, ret, score_before]
    shots,        \* the shooter's list of coordinates (client.py self.shots)
    shot_index,   \* how many entries of shots were fired (client.py self.shot_index)
    srv_pc,       \* where the server is: "accept", "position", "recv_start", "recv_coord"
    game,         \* handle_client's game, a server.Battleship: [board, shot_count, hit_count]
    srv_ship,     \* Battleship.position_ships: index (1..4) of the ship being placed
    conn_open,    \* the accepted connection has not been closed by the server
    srv_recv,     \* what the latest conn.recv(..).decode() returned
    reply,        \* the payloads of the conn.send calls of the latest server step, in order
    sent,         \* how many payloads of each kind were sent on the connection
    valid_shots,  \* how many received coordinates passed is_valid_coord on the connection
    coord_in,     \* the string handed to the coordinate validators
    coord_out,    \* what the validators returned for coord_in, once they ran
    cli_pc,       \* where the client is in play(): "start_game", "recv_positioning", ...
    cli_game,     \* the client's Battleship: [board, shot_count, hit_count]
    cli_open,     \* the client's socket has not been closed
    backlog,      \* connections made to the server's socket and not yet accepted
    c2s,          \* bytes the client sent that the server has not received yet
    s2c,          \* bytes the server sent that the client has not received yet
    cli_auto,     \* client.py self.auto
    cli_coord,    \* the coordinate get_next_shot returned for the current turn
    cli_msg,      \* the payload of the client's send in its latest step, if it sent
    cli_resp,     \* what the client's latest recv(..).decode() returned
    cli_typed,    \* what the user typed so far: [plan, off], lines of the user's plan and others
    c2s_frames,   \* the payloads of the client's sends, as far as not received yet
    s2c_frames,   \* the payloads of the server's sends, as far as not received yet
    msg_in,       \* what create_message or parse_message is applied to
    msg_out       \* the frame made and what parse_message did, once they ran

gbVars == <<gameboard, gb_pc, gb_ship, gb_calls, gb_call>>
envVars == <<shots, shot_index>>
srvVars == <<srv_pc, game, srv_ship, conn_open, srv_recv, reply, sent, valid_shots>>
coordVars == <<coord_in, coord_out>>
cliVars == <<cli_pc, cli_game, cli_open, backlog, c2s, s2c, cli_auto, cli_coord,
             cli_msg, cli_resp, cli_typed, c2s_frames, s2c_frames>>
msgVars == <<msg_in, msg_out>>
vars == <<gameboard, gb_pc, gb_ship, gb_calls, gb_call, shots, shot_index,
          srv_pc, game, srv_ship, conn_open, srv_recv, reply, sent, valid_shots,
          coord_in, coord_out, cli_pc, cli_game, cli_open, backlog, c2s, s2c,
          cli_auto, cli_coord, cli_msg, cli_resp, cli_typed, c2s_frames,
          s2c_frames, msg_in, msg_out>>

(***************************************************************************)
(* Bounds of the model.                                                    *)
(***************************************************************************)
\* np.random.randint(GRID_SIZE) is sampled at the multiples of RandGap that
\* are below GRID_SIZE when a game follows the placement, and at the multiples
\* of PlaceGap when the placement alone is explored.
RandGap == 5
PlaceGap == 3
\* parse_message is applied to the parts of frames that start at most MaxCut
\* characters into the frame.
MaxCut == 1
\* The validators are applied to every string of at most MaxCoordLen characters.
MaxCoordLen == 3
\* random.shuffle is sampled by NumShuffles permutations of the 81 coordinates.
NumShuffles == 1
\* A shooter repeats an already fired coordinate at most MaxRepeats times.
MaxRepeats == 1
\* When a client and the server play a session, np.random.randint(GRID_SIZE) is
\* sampled at the multiples of SessionGap.
SessionGap == 6
\* A user types at most MaxTyped lines that are not the next coordinate of
\* their plan, and only before TypedTurns coordinates of the plan were typed.
MaxTyped == 1
TypedTurns == 2
\* A peer that is not the server of server.py sends at most MaxPeerSends payloads.
MaxPeerSends == 4

(***************************************************************************)
(* Program constants.                                                      *)
(***************************************************************************)
GRID_SIZE == 9

ALPHABET == <<"A", "B", "C", "D", "E", "F", "G", "H", "I">>
DIGITS == <<"0", "1", "2", "3", "4", "5", "6", "7", "8", "9">>

\* CellState of game_model.py
EMPTY == 0
SHIP == 1
HIT == 2
MISS == 3

\* self.ships, in insertion order (the order of .values())
ShipKeys == <<"C", "H", "L", "A">>
ShipSize == [k \in {"C", "H", "L", "A"} |->
                CASE k = "C" -> 5 [] k = "H" -> 4 [] k = "L" -> 3 [] k = "A" -> 2]

Indices == 0 .. (GRID_SIZE - 1)
Cells == Indices \X Indices

\* A board is a GRID_SIZE x GRID_SIZE array: a sequence of rows, the first
\* index choosing the row. Cell <<x, y>> is board[x, y] of the array.
\* np.zeros((GRID_SIZE, GRID_SIZE), dtype=int)
Zeros == [i \in 1 .. GRID_SIZE |-> [j \in 1 .. GRID_SIZE |-> 0]]
\* board[x, y]
At(board, c) == board[c[1] + 1][c[2] + 1]
\* board[x, y] = value
Put(board, c, value) == [board EXCEPT ![c[1] + 1][c[2] + 1] = value]
\* board[slice] = value, for the cells S of a slice
Fill(board, S, value) ==
    [i \in 1 .. GRID_SIZE |-> [j \in 1 .. GRID_SIZE |->
        IF <<i - 1, j - 1>> \in S THEN value ELSE board[i][j]]]

RECURSIVE SumSizes(_)
SumSizes(i) == IF i = 0 THEN 0 ELSE ShipSize[ShipKeys[i]] + SumSizes(i - 1)
\* sum(ship.size for ship in self.ships.values())
TotalShipCells == SumSizes(Len(ShipKeys))

(***************************************************************************)
(* String helpers.                                                         *)
(***************************************************************************)
\* list.index / str.index: the 0-based position of the first occurrence
IndexOf(seq, e) == (CHOOSE i \in 1 .. Len(seq) :
                        seq[i] = e /\ \A j \in 1 .. (i - 1) : seq[j] # e) - 1

Contains(seq, e) == \E i \in 1 .. Len(seq) : seq[i] = e

\* "sub in s" for strings: sub occurs in s as a contiguous substring
IsSubstring(sub, s) ==
    \E i \in 0 .. (Len(s) - Len(sub)) :
        \A j \in 1 .. Len(sub) : s[i + j] = sub[j]

\* str.upper() of one character. It is not the identity and not always one
\* character long: the dotless i (U+0131) upper-cases to "I", the sharp s to "SS".
Upper(ch) ==
    CASE ch = "a" -> <<"A">> [] ch = "b" -> <<"B">> [] ch = "c" -> <<"C">>
      [] ch = "d" -> <<"D">> [] ch = "e" -> <<"E">> [] ch = "f" -> <<"F">>
      [] ch = "g" -> <<"G">> [] ch = "h" -> <<"H">> [] ch = "i" -> <<"I">>
      [] ch = "j" -> <<"J">> [] ch = "z" -> <<"Z">>
      [] ch = "dotless_i" -> <<"I">>
      [] ch = "sharp_s" -> <<"S", "S">>
      [] OTHER -> <<ch>>

\* int(ch) of one decimal digit
DigitValue(ch) == IndexOf(DIGITS, ch)

RECURSIVE IntToStr(_)
\* f'{n}' of a non-negative integer
IntToStr(n) == IF n < 10 THEN <<DIGITS[n + 1]>>
               ELSE IntToStr(n \div 10) \o <<DIGITS[(n % 10) + 1]>>

(***************************************************************************)
(* The random sources, bounded.                                            *)
(***************************************************************************)
\* the values np.random.randint(GRID_SIZE) is sampled at
Samples(gap) == {v \in Indices : v % gap = 0}
RandInts == Samples(RandGap)
PlaceInts == Samples(PlaceGap)
SessionInts == Samples(SessionGap)
Directions == {"H", "V"}

\* [f'{c}{n}' for c in ALPHABET for n in range(1, GRID_SIZE + 1)]
AllCoords == [i \in 1 .. (GRID_SIZE * GRID_SIZE) |->
                <<ALPHABET[((i - 1) \div GRID_SIZE) + 1],
                  DIGITS[((i - 1) % GRID_SIZE) + 2]>>]

\* the k-th sampled outcome of random.shuffle(all_coords): a permutation of
\* AllCoords that walks it with a stride coprime to 81
Stride(k) == k + ((k - 1) \div 2)
Shuffled(k) == [i \in 1 .. Len(AllCoords) |->
                  AllCoords[(((i - 1) * Stride(k)) % Len(AllCoords)) + 1]]
Shuffles == {Shuffled(k) : k \in 1 .. NumShuffles}

(***************************************************************************)
(* game_model.py: GameBoard                                                *)
(***************************************************************************)
NoPosition == <<>>
NoDirection == "None"

\* GameBoard.__init__
NewGameBoard ==
    [board |-> Zeros,
     shot_count |-> 0,
     hit_count |-> 0,
     ships |-> [k \in {"C", "H", "L", "A"} |->
                  [size |-> ShipSize[k], position |-> NoPosition,
                   direction |-> NoDirection]]]

\* the cells of board[x, y:y+size] ('H') or board[x:x+size, y] ('V');
\* a slice is clipped at the edge of the array
Run(x, y, size, direction) ==
    IF direction = "H"
    THEN {<<x, j>> : j \in {j \in Indices : y <= j /\ j < y + size}}
    ELSE {<<i, y>> : i \in {i \in Indices : x <= i /\ i < x + size}}

\* _is_valid_placement without the test for overlap
GB_is_valid_placement_NoOverlap(board, x, y, size, direction) ==
    \/ direction = "H" /\ y + size <= GRID_SIZE
    \/ direction = "V" /\ x + size <= GRID_SIZE

\* GameBoard._is_valid_placement
GB_is_valid_placement(board, x, y, size, direction) ==
    IF direction = "H" /\ y + size <= GRID_SIZE
    THEN \A c \in Run(x, y, size, "H") : At(board, c) = EMPTY
    ELSE IF direction = "V" /\ x + size <= GRID_SIZE
    THEN \A c \in Run(x, y, size, "V") : At(board, c) = EMPTY
    ELSE FALSE

\* GameBoard._place_ship
GB_place_ship(g, x, y, key, direction) ==
    [g EXCEPT
        !.ships[key].position = <<x, y>>,
        !.ships[key].direction = direction,
        !.board = Fill(g.board,
                       Run(x, y, g.ships[key].size, IF direction = "H" THEN "H" ELSE "V"),
                       SHIP)]

\* GameBoard.is_game_over
GB_is_game_over(g) == g.hit_count = TotalShipCells

\* GameBoard._coord_to_indices
GB_coord_to_indices(coord) ==
    <<IndexOf(ALPHABET, Upper(coord[1])[1]), DigitValue(coord[2]) - 1>>

\* GameBoard.get_score
GB_get_score(g) == g.shot_count

\* process_shot that counts a hit without marking the cell HIT
GB_process_shot_state_NoMark(g, coord) ==
    LET xy == GB_coord_to_indices(coord)
        current_state == At(g.board, xy)
    IN  IF current_state = SHIP
        THEN [g EXCEPT !.hit_count = @ + 1,
                       !.shot_count = @ + 1]
        ELSE IF current_state = EMPTY
        THEN [g EXCEPT !.board = Put(g.board, xy, MISS),
                       !.shot_count = @ + 1]
        ELSE g

\* GameBoard.process_shot: the board afterwards
GB_process_shot_state(g, coord) ==
    LET xy == GB_coord_to_indices(coord)
        current_state == At(g.board, xy)
    IN  IF current_state = SHIP
        THEN [g EXCEPT !.board = Put(g.board, xy, HIT),
                       !.hit_count = @ + 1,
                       !.shot_count = @ + 1]
        ELSE IF current_state = EMPTY
        THEN [g EXCEPT !.board = Put(g.board, xy, MISS),
                       !.shot_count = @ + 1]
        ELSE g

\* GameBoard.process_shot: the pair (is_hit, is_game_over) it returns
GB_process_shot_ret(g, coord) ==
    LET xy == GB_coord_to_indices(coord)
        current_state == At(g.board, xy)
    IN  IF current_state = SHIP
        THEN <<TRUE, GB_is_game_over(GB_process_shot_state(g, coord))>>
        ELSE <<FALSE, FALSE>>

NoCall == [coord |-> <<>>, ret |-> <<FALSE, FALSE>>, score_before |-> 0]

\* one iteration of the while loop of GameBoard.position_ships, for the ship
\* the for loop is at, with randint drawn from ints
GB_position_ships_step(ints) ==
    /\ gb_pc = "position"
    /\ \E x \in ints, y \in ints, direction \in Directions :
         LET key == ShipKeys[gb_ship] IN
         IF GB_is_valid_placement(gameboard.board, x, y,
                                  gameboard.ships[key].size, direction)
         THEN /\ gameboard' = GB_place_ship(gameboard, x, y, key, direction)
              /\ IF gb_ship = Len(ShipKeys)
                 THEN gb_pc' = "shots" /\ gb_ship' = gb_ship
                 ELSE gb_pc' = gb_pc /\ gb_ship' = gb_ship + 1
         ELSE UNCHANGED <<gameboard, gb_pc, gb_ship>>
    /\ UNCHANGED <<gb_calls, gb_call, shots, shot_index>>
    /\ UNCHANGED srvVars
    /\ UNCHANGED coordVars
    /\ UNCHANGED msgVars
    /\ UNCHANGED cliVars

GB_PositionShip == GB_position_ships_step(RandInts)

\* a caller's get_score() followed by process_shot(coord)
GB_Call(coord) ==
    /\ gameboard' = GB_process_shot_state(gameboard, coord)
    /\ gb_call' = [coord |-> coord, ret |-> GB_process_shot_ret(gameboard, coord),
                   score_before |-> GB_get_score(gameboard)]
    /\ gb_calls' = gb_calls + 1

LowerCase(coord) ==
    <<<<"a", "b", "c", "d", "e", "f", "g", "h", "i">>[IndexOf(ALPHABET, coord[1]) + 1],
      coord[2]>>

\* process_shot at the next coordinate of the list
GB_FreshShot ==
    /\ gb_pc = "shots"
    /\ shot_index < Len(shots)
    /\ GB_Call(shots[shot_index + 1])
    /\ shot_index' = shot_index + 1
    /\ UNCHANGED <<gb_pc, gb_ship, shots>>
    /\ UNCHANGED srvVars
    /\ UNCHANGED coordVars
    /\ UNCHANGED msgVars
    /\ UNCHANGED cliVars

\* process_shot again at the coordinate fired last, in either case of the letter
GB_RepeatShot ==
    /\ gb_pc = "shots"
    /\ shot_index > 0
    /\ gb_calls - shot_index < MaxRepeats
    /\ \E coord \in {shots[shot_index], LowerCase(shots[shot_index])} : GB_Call(coord)
    /\ UNCHANGED <<gb_pc, gb_ship, shots, shot_index>>
    /\ UNCHANGED srvVars
    /\ UNCHANGED coordVars
    /\ UNCHANGED msgVars
    /\ UNCHANGED cliVars

(***************************************************************************)
(* server.py: Battleship and BattleshipServer                              *)
(***************************************************************************)
START_GAME == <<"S", "T", "A", "R", "T", " ", "G", "A", "M", "E", "\n">>
POSITIONING_SHIPS == <<"P", "O", "S", "I", "T", "I", "O", "N", "I", "N", "G", " ",
                       "S", "H", "I", "P", "S", "\n">>
SHIPS_IN_POSITION == <<"S", "H", "I", "P", "S", " ", "I", "N", " ",
                       "P", "O", "S", "I", "T", "I", "O", "N", "\n">>
HIT_REPLY == <<"H", "I", "T", "\n">>
MISS_REPLY == <<"M", "I", "S", "S", "\n">>
NULL == <<"n", "u", "l", "l">>

\* the character classes [A-I] and [1-9] of the COORD_PATTERNs
InClassAI(ch) == ch \in {"A", "B", "C", "D", "E", "F", "G", "H", "I"}
InClass19(ch) == ch \in {"1", "2", "3", "4", "5", "6", "7", "8", "9"}

\* server.Battleship.is_valid_coord: re.match of ^[A-I][1-9]\n\Z
Srv_is_valid_coord(coord) ==
    /\ Len(coord) = 3
    /\ InClassAI(coord[1])
    /\ InClass19(coord[2])
    /\ coord[3] = "\n"

\* server.Battleship.__init__, before position_ships()
NewBattleship == [board |-> Zeros, shot_count |-> 0, hit_count |-> 0]

\* server.Battleship.is_valid_placement
Srv_is_valid_placement(board, x, y, size, direction) ==
    IF direction = "H" /\ y + size <= GRID_SIZE
    THEN \A c \in Run(x, y, size, "H") : At(board, c) = 0
    ELSE IF direction = "V" /\ x + size <= GRID_SIZE
    THEN \A c \in Run(x, y, size, "V") : At(board, c) = 0
    ELSE FALSE

\* server.Battleship.set_ship (direction is 'H' or 'V')
Srv_set_ship(g, x, y, size, direction) ==
    [g EXCEPT !.board = Fill(g.board, Run(x, y, size, direction), 1)]

\* server.Battleship.game_over
Srv_game_over(g) == g.hit_count = TotalShipCells

\* server.Battleship.coord_to_indicies
Srv_coord_to_indicies(coord) ==
    <<IndexOf(ALPHABET, coord[1]), DigitValue(coord[2]) - 1>>

\* server.Battleship.get_value_at
Srv_get_value_at(g, coord) == At(g.board, Srv_coord_to_indicies(coord))

\* set_value_at that leaves the board as it was
Srv_set_value_at_Nop(g, coord, value) == g

\* server.Battleship.set_value_at
Srv_set_value_at(g, coord, value) ==
    [g EXCEPT !.board = Put(g.board, Srv_coord_to_indicies(coord), value)]

\* the kind of a payload the server sends
IsDigits(data) == Len(data) > 0 /\ \A i \in 1 .. Len(data) : Contains(DIGITS, data[i])
Kind(data) ==
    CASE data = POSITIONING_SHIPS -> "positioning"
      [] data = SHIPS_IN_POSITION -> "in_position"
      [] data = HIT_REPLY -> "hit"
      [] data = MISS_REPLY -> "miss"
      [] IsDigits(data) -> "score"
      [] OTHER -> "other"
Kinds == {"positioning", "in_position", "hit", "miss", "score", "other"}
NothingSent == [k \in Kinds |-> 0]

RECURSIVE Tally(_, _)
\* the counts after the payloads of sends were sent in order
Tally(counts, sends) ==
    IF sends = <<>> THEN counts
    ELSE Tally([counts EXCEPT ![Kind(Head(sends))] = @ + 1], Tail(sends))

\* handle_client that sends the score whenever the loop is left
Srv_Continue_ScoreOnBreak(g, sends, left_by_break) ==
    LET out == IF left_by_break \/ Srv_game_over(g)
               THEN sends \o <<IntToStr(g.shot_count)>> ELSE sends
    IN  /\ game' = g
        /\ reply' = out
        /\ sent' = Tally(sent, out)
        /\ IF left_by_break \/ Srv_game_over(g)
           THEN srv_pc' = "accept" /\ conn_open' = FALSE
           ELSE srv_pc' = "recv_coord" /\ conn_open' = conn_open

\* handle_client with "continue" where line 163 has "break"
Srv_Continue_NoBreak(g, sends, left_by_break) ==
    LET out == IF Srv_game_over(g) THEN sends \o <<IntToStr(g.shot_count)>> ELSE sends
    IN  /\ game' = g
        /\ reply' = out
        /\ sent' = Tally(sent, out)
        /\ IF Srv_game_over(g)
           THEN srv_pc' = "accept" /\ conn_open' = FALSE
           ELSE srv_pc' = "recv_coord" /\ conn_open' = conn_open

\* handle_client from the loop test to the next recv or to the return:
\* "while not game.game_over()" and, once the loop is left, lines 179-184
Srv_Continue(g, sends, left_by_break) ==
    LET out == IF Srv_game_over(g) THEN sends \o <<IntToStr(g.shot_count)>> ELSE sends
    IN  /\ game' = g
        /\ reply' = out
        /\ sent' = Tally(sent, out)
        /\ IF left_by_break \/ Srv_game_over(g)
           THEN srv_pc' = "accept" /\ conn_open' = FALSE
           ELSE srv_pc' = "recv_coord" /\ conn_open' = conn_open

\* the body of the while loop that answers a shot at a ship only
Srv_LoopBody_MissUnanswered(raw) ==
    LET coord == IF raw # <<>> THEN raw ELSE NULL IN
    /\ srv_recv' = raw
    /\ IF ~Srv_is_valid_coord(coord)
       THEN /\ Srv_Continue(game, <<>>, TRUE)
            /\ valid_shots' = valid_shots
       ELSE /\ valid_shots' = valid_shots + 1
            /\ IF Srv_get_value_at(game, coord) = 1
               THEN Srv_Continue(
                        [Srv_set_value_at(game, coord, -1) EXCEPT
                            !.hit_count = @ + 1, !.shot_count = @ + 1],
                        <<HIT_REPLY>>, FALSE)
               ELSE Srv_Continue([game EXCEPT !.shot_count = @ + 1], <<>>, FALSE)

\* the body of the while loop with "game.shot_count += 1" inside the else
\* branch, so that only a MISS is counted as a shot
Srv_LoopBody_HitNotTallied(raw) ==
    LET coord == IF raw # <<>> THEN raw ELSE NULL IN
    /\ srv_recv' = raw
    /\ IF ~Srv_is_valid_coord(coord)
       THEN /\ Srv_Continue(game, <<>>, TRUE)
            /\ valid_shots' = valid_shots
       ELSE /\ valid_shots' = valid_shots + 1
            /\ IF Srv_get_value_at(game, coord) = 1
               THEN Srv_Continue(
                        [Srv_set_value_at(game, coord, -1) EXCEPT
                            !.hit_count = @ + 1],
                        <<HIT_REPLY>>, FALSE)
               ELSE Srv_Continue([game EXCEPT !.shot_count = @ + 1],
                                 <<MISS_REPLY>>, FALSE)

\* the body of the while loop for what recv returned (lines 155-177)
Srv_LoopBody(raw) ==
    LET coord == IF raw # <<>> THEN raw ELSE NULL IN
    /\ srv_recv' = raw
    /\ IF ~Srv_is_valid_coord(coord)
       THEN /\ Srv_Continue(game, <<>>, TRUE)
            /\ valid_shots' = valid_shots
       ELSE /\ valid_shots' = valid_shots + 1
            /\ IF Srv_get_value_at(game, coord) = 1
               THEN Srv_Continue(
                        [Srv_set_value_at(game, coord, -1) EXCEPT
                            !.hit_count = @ + 1, !.shot_count = @ + 1],
                        <<HIT_REPLY>>, FALSE)
               ELSE Srv_Continue([game EXCEPT !.shot_count = @ + 1],
                                 <<MISS_REPLY>>, FALSE)

\* what a peer may make recv return besides the coordinates of its list:
\* nothing (it disconnected), and lines that are no coordinate of the server
CloseInput == <<>>
BadInputs == {<<"Z", "9", "\n">>, <<"A", "1">>, <<"a", "1", "\n">>,
              <<"A", "1", "\n", "A", "2", "\n">>}

\* coord + '\n', as a shooter sends it
Line(coord) == coord \o <<"\n">>

\* run(): wait_for_client() returns a connection and handle_client constructs
\* its Battleship (line 136) up to the call of position_ships
Srv_Accept ==
    /\ srv_pc = "accept"
    /\ srv_pc' = "position"
    /\ game' = NewBattleship
    /\ srv_ship' = 1
    /\ conn_open' = TRUE
    /\ srv_recv' = <<>>
    /\ reply' = <<>>
    /\ sent' = NothingSent
    /\ valid_shots' = 0
    /\ shots' \in Shuffles
    /\ shot_index' = 0
    /\ UNCHANGED gbVars
    /\ UNCHANGED coordVars
    /\ UNCHANGED msgVars
    /\ UNCHANGED cliVars

\* one iteration of the while loop of Battleship.position_ships, with randint
\* drawn from ints
Srv_position_ships_step(ints) ==
    /\ srv_pc = "position"
    /\ \E x \in ints, y \in ints, direction \in Directions :
         LET size == ShipSize[ShipKeys[srv_ship]] IN
         IF Srv_is_valid_placement(game.board, x, y, size, direction)
         THEN /\ game' = Srv_set_ship(game, x, y, size, direction)
              /\ IF srv_ship = Len(ShipKeys)
                 THEN srv_pc' = "recv_start" /\ srv_ship' = srv_ship
                 ELSE srv_pc' = srv_pc /\ srv_ship' = srv_ship + 1
         ELSE UNCHANGED <<game, srv_pc, srv_ship>>
    /\ UNCHANGED <<conn_open, srv_recv, reply, sent, valid_shots>>
    /\ UNCHANGED envVars
    /\ UNCHANGED gbVars
    /\ UNCHANGED coordVars
    /\ UNCHANGED msgVars
    /\ UNCHANGED cliVars

Srv_PositionShip == Srv_position_ships_step(RandInts)

\* lines 139-151 with the two acknowledgements sent in the other order
Srv_Start_Swapped(data) ==
    /\ srv_recv' = data
    /\ valid_shots' = valid_shots
    /\ IF data # START_GAME
       THEN /\ srv_pc' = "accept"
            /\ conn_open' = FALSE
            /\ reply' = <<>>
            /\ UNCHANGED <<game, sent>>
       ELSE Srv_Continue(game, <<SHIPS_IN_POSITION, POSITIONING_SHIPS>>, FALSE)

\* lines 139-151 with the first acknowledgement sent before data is compared
Srv_Start_AckFirst(data) ==
    /\ srv_recv' = data
    /\ valid_shots' = valid_shots
    /\ IF data # START_GAME
       THEN /\ srv_pc' = "accept"
            /\ conn_open' = FALSE
            /\ reply' = <<POSITIONING_SHIPS>>
            /\ sent' = Tally(sent, <<POSITIONING_SHIPS>>)
            /\ game' = game
       ELSE Srv_Continue(game, <<POSITIONING_SHIPS, SHIPS_IN_POSITION>>, FALSE)

\* lines 139-151 without the conn.close() of line 144
Srv_Start_NoClose(data) ==
    /\ srv_recv' = data
    /\ valid_shots' = valid_shots
    /\ IF data # START_GAME
       THEN /\ srv_pc' = "accept"
            /\ conn_open' = conn_open
            /\ reply' = <<>>
            /\ UNCHANGED <<game, sent>>
       ELSE Srv_Continue(game, <<POSITIONING_SHIPS, SHIPS_IN_POSITION>>, FALSE)

\* handle_client lines 139-151 for what recv(30) returned
Srv_Start(data) ==
    /\ srv_recv' = data
    /\ valid_shots' = valid_shots
    /\ IF data # START_GAME
       THEN /\ srv_pc' = "accept"
            /\ conn_open' = FALSE
            /\ reply' = <<>>
            /\ UNCHANGED <<game, sent>>
       ELSE Srv_Continue(game, <<POSITIONING_SHIPS, SHIPS_IN_POSITION>>, FALSE)

\* the peer sent START GAME
Srv_RecvStart ==
    /\ srv_pc = "recv_start"
    /\ Srv_Start(START_GAME)
    /\ UNCHANGED <<srv_ship, shots, shot_index>>
    /\ UNCHANGED gbVars
    /\ UNCHANGED coordVars
    /\ UNCHANGED msgVars
    /\ UNCHANGED cliVars

\* the peer sent something else first, or disconnected
Srv_RecvBadStart ==
    /\ srv_pc = "recv_start"
    /\ \E data \in BadInputs \cup {CloseInput, Line(shots[1])} : Srv_Start(data)
    /\ UNCHANGED <<srv_ship, shots, shot_index>>
    /\ UNCHANGED gbVars
    /\ UNCHANGED coordVars
    /\ UNCHANGED msgVars
    /\ UNCHANGED cliVars

\* the peer fired the next coordinate of its list
Srv_RecvFreshShot ==
    /\ srv_pc = "recv_coord"
    /\ shot_index < Len(shots)
    /\ Srv_LoopBody(Line(shots[shot_index + 1]))
    /\ shot_index' = shot_index + 1
    /\ UNCHANGED <<srv_ship, shots>>
    /\ UNCHANGED gbVars
    /\ UNCHANGED coordVars
    /\ UNCHANGED msgVars
    /\ UNCHANGED cliVars

\* the peer fired again the coordinate it fired last
Srv_RecvRepeatShot ==
    /\ srv_pc = "recv_coord"
    /\ shot_index > 0
    /\ valid_shots - shot_index < MaxRepeats
    /\ Srv_LoopBody(Line(shots[shot_index]))
    /\ UNCHANGED <<srv_ship, shots, shot_index>>
    /\ UNCHANGED gbVars
    /\ UNCHANGED coordVars
    /\ UNCHANGED msgVars
    /\ UNCHANGED cliVars

\* the peer sent a line that is no coordinate, or START GAME again
Srv_RecvBadShot ==
    /\ srv_pc = "recv_coord"
    /\ \E data \in BadInputs \cup {START_GAME} : Srv_LoopBody(data)
    /\ UNCHANGED <<srv_ship, shots, shot_index>>
    /\ UNCHANGED gbVars
    /\ UNCHANGED coordVars
    /\ UNCHANGED msgVars
    /\ UNCHANGED cliVars

\* the peer disconnected: recv returns no bytes
Srv_RecvClose ==
    /\ srv_pc = "recv_coord"
    /\ Srv_LoopBody(CloseInput)
    /\ UNCHANGED <<srv_ship, shots, shot_index>>
    /\ UNCHANGED gbVars
    /\ UNCHANGED coordVars
    /\ UNCHANGED msgVars
    /\ UNCHANGED cliVars

(***************************************************************************)
(* The coordinate validators                                               *)
(***************************************************************************)
\* protocol.validate_coordinate
validate_coordinate(coord) ==
    IF coord = <<>> \/ Len(coord) # 2
    THEN FALSE
    ELSE LET col == Upper(coord[1])
             row == <<coord[2]>>
         IN  /\ IsSubstring(col, ALPHABET)
             /\ IsSubstring(row, Tail(DIGITS))

\* is_valid_coord that lets every string pass
Cli_is_valid_coord_Any(coord) == TRUE

\* client.Battleship.is_valid_coord: re.match of ^[A-I][1-9]$, where $ matches
\* at the end of the string and before a newline that ends the string
Cli_is_valid_coord(coord) ==
    /\ Len(coord) \in {2, 3}
    /\ InClassAI(coord[1])
    /\ InClass19(coord[2])
    /\ Len(coord) = 3 => coord[3] = "\n"

\* the characters the validated strings are made of
Chars == {"A", "I", "J", "a", "i", "j", "0", "1", "9", "\n", "dotless_i", "sharp_s"}

RECURSIVE StringsOfLen(_)
StringsOfLen(n) ==
    IF n = 0 THEN {<<>>}
    ELSE {s \o <<ch>> : s \in StringsOfLen(n - 1), ch \in Chars}
TestStrings == UNION {StringsOfLen(n) : n \in 0 .. MaxCoordLen}

NotRun == [ran |-> FALSE, protocol |-> FALSE, client |-> FALSE, server |-> FALSE]

\* the three validators applied to coord_in
Validate ==
    /\ coord_out = NotRun
    /\ coord_out' = [ran |-> TRUE,
                     protocol |-> validate_coordinate(coord_in),
                     client |-> Cli_is_valid_coord(coord_in),
                     server |-> Srv_is_valid_coord(coord_in)]
    /\ UNCHANGED coord_in
    /\ UNCHANGED gbVars
    /\ UNCHANGED envVars
    /\ UNCHANGED srvVars
    /\ UNCHANGED cliVars
    /\ UNCHANGED msgVars

(***************************************************************************)
(* client.py: Battleship and BattleshipClient.start_game, and one          *)
(* connection between the client and the server                            *)
(***************************************************************************)
\* client.Battleship.__init__: np.full((GRID_SIZE, GRID_SIZE), '.')
NewClientGame ==
    [board |-> [i \in 1 .. GRID_SIZE |-> [j \in 1 .. GRID_SIZE |-> "."]],
     shot_count |-> 0,
     hit_count |-> 0]

RECURSIVE Concat(_)
\* the bytes of the payloads of sends, in the order sent
Concat(sends) == IF sends = <<>> THEN <<>> ELSE Head(sends) \o Concat(Tail(sends))

\* the lengths of what recv(bufsize) may return while bytes are in flight: a
\* stream socket hands over any non-empty part of them, at most bufsize bytes
RecvLengths(stream, bufsize) ==
    1 .. (IF Len(stream) < bufsize THEN Len(stream) ELSE bufsize)
Take(stream, k) == SubSeq(stream, 1, k)
Drop(stream, k) == SubSeq(stream, k + 1, Len(stream))

\* play(): connect() and, in start_game, the send of line 123
Cli_Start ==
    /\ cli_pc = "start_game"
    /\ backlog' = backlog + 1
    /\ c2s' = c2s \o START_GAME
    /\ c2s_frames' = Append(c2s_frames, START_GAME)
    /\ cli_msg' = START_GAME
    /\ cli_pc' = "recv_positioning"
    /\ UNCHANGED <<cli_game, cli_open, s2c, s2c_frames>>
    /\ UNCHANGED <<cli_auto, cli_coord, cli_resp, cli_typed>>
    /\ UNCHANGED gbVars
    /\ UNCHANGED envVars
    /\ UNCHANGED srvVars
    /\ UNCHANGED coordVars
    /\ UNCHANGED msgVars

\* start_game that goes on whatever recv returned
Cli_Expect_Lenient(data, expected, next_pc) ==
    cli_pc' = next_pc /\ cli_open' = cli_open

\* start_game after a recv(20) returned data (lines 126-132 and 135-141):
\* anything but the expected line closes the socket and exits
Cli_Expect(data, expected, next_pc) ==
    LET shown == IF data # <<>> THEN data ELSE NULL IN
    IF shown # expected
    THEN cli_pc' = "exited" /\ cli_open' = FALSE
    ELSE cli_pc' = next_pc /\ cli_open' = cli_open

\* the server's end of the connection is closed
SrvClosed ==
    /\ ~conn_open
    /\ backlog = 0
    /\ srv_pc \in {"accept", "crashed", "peer"}

RECURSIVE TrimFrames(_, _)
\* the payloads in flight after k of their bytes were received
TrimFrames(frames, k) ==
    IF k = 0 \/ frames = <<>> THEN frames
    ELSE IF Len(Head(frames)) <= k
         THEN TrimFrames(Tail(frames), k - Len(Head(frames)))
         ELSE <<Drop(Head(frames), k)>> \o Tail(frames)

\* what a recv(bufsize) of the client may return: bytes in flight, or no bytes
\* once the server has closed and everything it sent was received
Cli_Data(bufsize) ==
    {Take(s2c, k) : k \in RecvLengths(s2c, bufsize)}
      \cup (IF s2c = <<>> /\ SrvClosed THEN {<<>>} ELSE {})

\* data leaves the connection and is what recv returned
Cli_Deliver(data) ==
    /\ s2c' = Drop(s2c, Len(data))
    /\ s2c_frames' = TrimFrames(s2c_frames, Len(data))
    /\ cli_resp' = data
    /\ UNCHANGED <<backlog, cli_auto>>
    /\ UNCHANGED gbVars
    /\ UNCHANGED srvVars
    /\ UNCHANGED coordVars
    /\ UNCHANGED msgVars

\* a recv(20) of start_game
Cli_Recv(expected, next_pc) ==
    /\ \E data \in Cli_Data(20) :
         Cli_Expect(data, expected, next_pc) /\ Cli_Deliver(data)
    /\ cli_msg' = <<>>
    /\ UNCHANGED <<cli_game, cli_coord, cli_typed, c2s, c2s_frames>>
    /\ UNCHANGED envVars

Cli_RecvPositioning ==
    /\ cli_pc = "recv_positioning"
    /\ Cli_Recv(POSITIONING_SHIPS, "recv_in_position")

Cli_RecvInPosition ==
    /\ cli_pc = "recv_in_position"
    /\ Cli_Recv(SHIPS_IN_POSITION, "play")

\* a recv of the client fails with ConnectionResetError: the server closed the
\* connection while bytes of the client were unread or still to arrive. Nothing
\* catches the exception, so the client process ends.
Cli_RecvReset ==
    /\ cli_pc \in {"recv_positioning", "recv_in_position", "recv_reply",
                    "recv_score"}
    /\ SrvClosed
    /\ c2s # <<>>
    /\ cli_pc' = "crashed"
    /\ cli_open' = FALSE
    /\ s2c' = <<>>
    /\ s2c_frames' = <<>>
    /\ cli_msg' = <<>>
    /\ UNCHANGED <<cli_game, backlog, c2s, c2s_frames>>
    /\ UNCHANGED <<cli_auto, cli_coord, cli_resp, cli_typed>>
    /\ UNCHANGED gbVars
    /\ UNCHANGED envVars
    /\ UNCHANGED srvVars
    /\ UNCHANGED coordVars
    /\ UNCHANGED msgVars

\* client.Battleship.game_over
Cli_game_over(g) == g.hit_count >= TotalShipCells

\* client.Battleship.coord_to_indicies
Cli_coord_to_indicies(coord) ==
    <<IndexOf(ALPHABET, coord[1]), DigitValue(coord[2]) - 1>>

\* client.Battleship.set_board
Cli_set_board(g, coord, value) ==
    LET c == Cli_coord_to_indicies(coord) IN
    [g EXCEPT !.board = IF At(g.board, c) = "." THEN Put(g.board, c, value)
                        ELSE g.board,
              !.shot_count = @ + 1]

\* client.Battleship.get_score
Cli_get_score(g) == g.shot_count

RECURSIVE UpperStr(_)
\* str.upper()
UpperStr(str) == IF str = <<>> THEN <<>> ELSE Upper(Head(str)) \o UpperStr(Tail(str))

RECURSIVE StripWs(_)
\* the string without its trailing newlines, as int() ignores them
StripWs(str) ==
    IF str # <<>> /\ str[Len(str)] = "\n" THEN StripWs(SubSeq(str, 1, Len(str) - 1))
    ELSE str

RECURSIVE DigitsValue(_)
DigitsValue(str) ==
    IF str = <<>> THEN 0
    ELSE 10 * DigitsValue(SubSeq(str, 1, Len(str) - 1)) + DigitValue(str[Len(str)])

\* int(str) succeeds: str is decimal digits, possibly followed by newlines
IsInt(str) == IsDigits(StripWs(str))
\* int(str)
IntOf(str) == DigitsValue(StripWs(str))

\* nothing typed yet
NoneTyped == [plan |-> 0, off |-> 0]

\* what the user may type besides the next coordinate of their plan: the
\* coordinate of the turn before, and lines that are no coordinate as typed
OffPlan ==
    (IF cli_coord # <<>> THEN {cli_coord} ELSE {})
      \cup {<<"Z", "9">>, <<>>, <<"dotless_i", "1">>, <<"sharp_s", "1">>}

\* play() lines 194-198 for the coordinate get_next_shot returned, up to the
\* send of play_turn (line 169)
Cli_Fire(coord) ==
    /\ cli_coord' = coord
    /\ IF ~Cli_is_valid_coord(coord)
       THEN /\ cli_pc' = "play"
            /\ cli_msg' = <<>>
            /\ UNCHANGED <<c2s, c2s_frames>>
       ELSE /\ cli_pc' = "recv_reply"
            /\ cli_msg' = Line(coord)
            /\ c2s' = c2s \o Line(coord)
            /\ c2s_frames' = Append(c2s_frames, Line(coord))
    /\ UNCHANGED <<cli_game, cli_open, backlog, s2c, s2c_frames, cli_auto, cli_resp>>
    /\ UNCHANGED shots
    /\ UNCHANGED gbVars
    /\ UNCHANGED srvVars
    /\ UNCHANGED coordVars
    /\ UNCHANGED msgVars

\* one iteration of the loop of play() in auto mode: get_next_shot takes
\* self.shots[self.shot_index]; past the end of the list that is an IndexError
\* nothing catches
Cli_AutoShot ==
    /\ cli_pc = "play"
    /\ cli_auto
    /\ ~Cli_game_over(cli_game)
    /\ IF shot_index >= Len(shots)
       THEN /\ cli_pc' = "crashed"
            /\ cli_open' = FALSE
            /\ cli_msg' = <<>>
            /\ UNCHANGED <<cli_game, backlog, c2s, s2c, cli_auto, cli_coord, cli_resp,
                           cli_typed, c2s_frames, s2c_frames>>
            /\ UNCHANGED envVars
            /\ UNCHANGED gbVars
            /\ UNCHANGED srvVars
            /\ UNCHANGED coordVars
            /\ UNCHANGED msgVars
       ELSE /\ shot_index' = shot_index + 1
            /\ cli_typed' = cli_typed
            /\ Cli_Fire(shots[shot_index + 1])

\* one iteration of the loop of play() with a user at the keyboard:
\* get_next_shot returns input(..).upper()
Cli_TypedShot ==
    /\ cli_pc = "play"
    /\ ~cli_auto
    /\ ~Cli_game_over(cli_game)
    /\ shot_index' = shot_index
    /\ \/ /\ cli_typed.plan < Len(shots)
          /\ \E line \in {shots[cli_typed.plan + 1],
                          LowerCase(shots[cli_typed.plan + 1])} :
               Cli_Fire(UpperStr(line))
          /\ cli_typed' = [cli_typed EXCEPT !.plan = @ + 1]
       \/ /\ cli_typed.off < MaxTyped
          /\ cli_typed.plan < TypedTurns
          /\ \E line \in OffPlan : Cli_Fire(UpperStr(line))
          /\ cli_typed' = [cli_typed EXCEPT !.off = @ + 1]

\* get_next_shot lines 160-163: the user interrupts the prompt
Cli_Interrupt ==
    /\ cli_pc = "play"
    /\ ~cli_auto
    /\ ~Cli_game_over(cli_game)
    /\ cli_typed.off < MaxTyped
    /\ cli_typed.plan < TypedTurns
    /\ cli_pc' = "exited"
    /\ cli_open' = FALSE
    /\ cli_msg' = <<>>
    /\ UNCHANGED <<cli_game, backlog, c2s, s2c, cli_auto, cli_coord, cli_resp,
                   cli_typed, c2s_frames, s2c_frames>>
    /\ UNCHANGED envVars
    /\ UNCHANGED gbVars
    /\ UNCHANGED srvVars
    /\ UNCHANGED coordVars
    /\ UNCHANGED msgVars

\* play_turn lines 170-180 for what recv(20) returned
Cli_Response(data) ==
    IF data = MISS_REPLY
    THEN /\ cli_game' = Cli_set_board(cli_game, cli_coord, "O")
         /\ cli_pc' = "play"
         /\ cli_open' = cli_open
    ELSE IF data = HIT_REPLY
    THEN /\ cli_game' = [Cli_set_board(cli_game, cli_coord, "X") EXCEPT
                            !.hit_count = @ + 1]
         /\ cli_pc' = "play"
         /\ cli_open' = cli_open
    ELSE /\ cli_game' = cli_game
         /\ cli_pc' = "exited"
         /\ cli_open' = FALSE

Cli_RecvReply ==
    /\ cli_pc = "recv_reply"
    /\ \E data \in Cli_Data(20) : Cli_Response(data) /\ Cli_Deliver(data)
    /\ cli_msg' = <<>>
    /\ UNCHANGED <<cli_coord, cli_typed, c2s, c2s_frames>>
    /\ UNCHANGED envVars

\* play(): the loop test of line 190 is false
Cli_GameOver ==
    /\ cli_pc = "play"
    /\ Cli_game_over(cli_game)
    /\ cli_pc' = "recv_score"
    /\ cli_msg' = <<>>
    /\ UNCHANGED <<cli_game, cli_open, backlog, c2s, s2c, cli_auto, cli_coord,
                   cli_resp, cli_typed, c2s_frames, s2c_frames>>
    /\ UNCHANGED envVars
    /\ UNCHANGED gbVars
    /\ UNCHANGED srvVars
    /\ UNCHANGED coordVars
    /\ UNCHANGED msgVars

\* play() lines 202-205 for what recv(20) returned: int() raises ValueError on
\* what is no integer, the assert raises AssertionError, and nothing catches
\* either; otherwise the client closes its socket and play() returns
Cli_Final(data) ==
    /\ cli_open' = FALSE
    /\ cli_pc' = IF ~IsInt(data) THEN "value_error"
                 ELSE IF IntOf(data) # Cli_get_score(cli_game) THEN "assert_failed"
                 ELSE "done"

Cli_RecvScore ==
    /\ cli_pc = "recv_score"
    /\ \E data \in Cli_Data(20) : Cli_Final(data) /\ Cli_Deliver(data)
    /\ cli_msg' = <<>>
    /\ UNCHANGED <<cli_game, cli_coord, cli_typed, c2s, c2s_frames>>
    /\ UNCHANGED envVars

\* the client process has ended
CliGone == ~cli_open /\ cli_pc \notin {"idle", "start_game"}

(***************************************************************************)
(* A peer of the client that is not the server of server.py: it accepts    *)
(* the connection and sends what it likes.                                  *)
(***************************************************************************)
PeerPayloads ==
    {POSITIONING_SHIPS, SHIPS_IN_POSITION, HIT_REPLY, MISS_REPLY, IntToStr(14)}

Peer_Accept ==
    /\ srv_pc = "peer"
    /\ backlog > 0
    /\ backlog' = backlog - 1
    /\ conn_open' = TRUE
    /\ UNCHANGED <<srv_pc, game, srv_ship, srv_recv, reply, sent, valid_shots>>
    /\ UNCHANGED <<cli_pc, cli_game, cli_open, c2s, s2c, cli_auto, cli_coord,
                   cli_msg, cli_resp, cli_typed, c2s_frames, s2c_frames>>
    /\ UNCHANGED envVars
    /\ UNCHANGED gbVars
    /\ UNCHANGED coordVars
    /\ UNCHANGED msgVars

Peer_Send ==
    /\ srv_pc = "peer"
    /\ conn_open
    /\ Len(s2c_frames) < 2
    /\ sent["positioning"] + sent["in_position"] + sent["hit"] + sent["miss"]
         + sent["score"] < MaxPeerSends
    /\ \E payload \in PeerPayloads :
         /\ reply' = <<payload>>
         /\ sent' = Tally(sent, <<payload>>)
         /\ s2c' = s2c \o payload
         /\ s2c_frames' = Append(s2c_frames, payload)
    /\ UNCHANGED <<srv_pc, game, srv_ship, conn_open, srv_recv, valid_shots>>
    /\ UNCHANGED <<cli_pc, cli_game, cli_open, backlog, c2s, cli_auto, cli_coord,
                   cli_msg, cli_resp, cli_typed, c2s_frames>>
    /\ UNCHANGED envVars
    /\ UNCHANGED gbVars
    /\ UNCHANGED coordVars
    /\ UNCHANGED msgVars

Peer_Close ==
    /\ srv_pc = "peer"
    /\ conn_open
    /\ conn_open' = FALSE
    /\ reply' = <<>>
    /\ UNCHANGED <<srv_pc, game, srv_ship, srv_recv, sent, valid_shots>>
    /\ UNCHANGED cliVars
    /\ UNCHANGED envVars
    /\ UNCHANGED gbVars
    /\ UNCHANGED coordVars
    /\ UNCHANGED msgVars

\* run(): wait_for_client() returns the client's connection, and handle_client
\* constructs its Battleship (line 136) up to the call of position_ships
Ses_Accept ==
    /\ srv_pc = "accept"
    /\ backlog > 0
    /\ backlog' = backlog - 1
    /\ srv_pc' = "position"
    /\ game' = NewBattleship
    /\ srv_ship' = 1
    /\ conn_open' = TRUE
    /\ srv_recv' = <<>>
    /\ reply' = <<>>
    /\ sent' = NothingSent
    /\ valid_shots' = 0
    /\ UNCHANGED <<cli_pc, cli_game, cli_open, c2s, s2c>>
    /\ UNCHANGED <<cli_auto, cli_coord, cli_msg, cli_resp, cli_typed>>
    /\ UNCHANGED <<c2s_frames, s2c_frames>>
    /\ UNCHANGED gbVars
    /\ UNCHANGED envVars
    /\ UNCHANGED coordVars
    /\ UNCHANGED msgVars

\* what a recv(bufsize) of the server may return: bytes in flight, or no bytes
\* once the client has closed and everything it sent was received
Ses_Data(bufsize) ==
    {Take(c2s, k) : k \in RecvLengths(c2s, bufsize)}
      \cup (IF c2s = <<>> /\ ~cli_open THEN {<<>>} ELSE {})

\* data leaves the connection, and what the server sends in reply is put in
\* flight to the client
Ses_Deliver(data) ==
    /\ c2s' = Drop(c2s, Len(data))
    /\ c2s_frames' = TrimFrames(c2s_frames, Len(data))
    /\ s2c' = s2c \o Concat(reply')
    /\ s2c_frames' = s2c_frames \o reply'
    /\ UNCHANGED <<cli_pc, cli_game, cli_open, backlog>>
    /\ UNCHANGED <<cli_auto, cli_coord, cli_msg, cli_resp, cli_typed>>
    /\ UNCHANGED <<srv_ship, shots, shot_index>>
    /\ UNCHANGED gbVars
    /\ UNCHANGED coordVars
    /\ UNCHANGED msgVars

\* handle_client line 139
Ses_RecvStart ==
    /\ srv_pc = "recv_start"
    /\ \E data \in Ses_Data(30) : Srv_Start(data) /\ Ses_Deliver(data)

\* handle_client line 155
Ses_RecvCoord ==
    /\ srv_pc = "recv_coord"
    /\ \E data \in Ses_Data(20) : Srv_LoopBody(data) /\ Ses_Deliver(data)

\* a recv of the server fails with ConnectionResetError: the client closed its
\* socket while bytes of the server were unread. Nothing in handle_client, run
\* or main catches the exception, so the server process ends.
Ses_RecvReset ==
    /\ srv_pc \in {"recv_start", "recv_coord"}
    /\ CliGone
    /\ s2c # <<>>
    /\ srv_pc' = "crashed"
    /\ conn_open' = FALSE
    /\ reply' = <<>>
    /\ c2s' = <<>>
    /\ c2s_frames' = <<>>
    /\ UNCHANGED <<game, srv_ship, srv_recv, sent, valid_shots>>
    /\ UNCHANGED <<cli_pc, cli_game, cli_open, backlog, s2c, s2c_frames>>
    /\ UNCHANGED <<cli_auto, cli_coord, cli_msg, cli_resp, cli_typed>>
    /\ UNCHANGED gbVars
    /\ UNCHANGED envVars
    /\ UNCHANGED coordVars
    /\ UNCHANGED msgVars

(***************************************************************************)
(* protocol.py: create_message and parse_message, with json.dumps and      *)
(* json.loads computed character by character.                             *)
(*                                                                         *)
(* A Python value is [tag, n, s, items]: tag is "null", "true", "false",   *)
(* "int", "str", "list" or "obj"; n the value of an int; s the characters  *)
(* of a str; items the elements of a list or, with their keys k, the       *)
(* members of a dict in insertion order.                                   *)
(***************************************************************************)
JNull == [tag |-> "null", n |-> 0, s |-> <<>>, items |-> <<>>]
JBool(b) == [tag |-> IF b THEN "true" ELSE "false", n |-> 0, s |-> <<>>, items |-> <<>>]
JInt(n) == [tag |-> "int", n |-> n, s |-> <<>>, items |-> <<>>]
JStr(s) == [tag |-> "str", n |-> 0, s |-> s, items |-> <<>>]
JList(items) == [tag |-> "list", n |-> 0, s |-> <<>>, items |-> items]
JObj(items) == [tag |-> "obj", n |-> 0, s |-> <<>>, items |-> items]
Item(v) == [k |-> <<>>, v |-> v]
Member(k, v) == [k |-> k, v |-> v]
EmptyObj == JObj(<<>>)

\* bool(v) is False
Falsy(v) ==
    \/ v.tag \in {"null", "false"}
    \/ v.tag = "int" /\ v.n = 0
    \/ v.tag = "str" /\ v.s = <<>>
    \/ v.tag \in {"list", "obj"} /\ v.items = <<>>

\* key in d
HasKey(d, k) == \E i \in 1 .. Len(d.items) : d.items[i].k = k
\* d[key]
GetMember(d, k) == d.items[CHOOSE i \in 1 .. Len(d.items) : d.items[i].k = k].v
\* d[key] = v: a key already in d keeps its place
SetMember(items, k, v) ==
    IF \E i \in 1 .. Len(items) : items[i].k = k
    THEN [i \in 1 .. Len(items) |-> IF items[i].k = k THEN Member(k, v) ELSE items[i]]
    ELSE Append(items, Member(k, v))

\* the values of MessageType
TYPE_KEY == <<"t", "y", "p", "e">>
DATA_KEY == <<"d", "a", "t", "a">>
MessageTypes ==
    {<<"S", "T", "A", "R", "T", "_", "G", "A", "M", "E">>,
     <<"P", "O", "S", "I", "T", "I", "O", "N", "I", "N", "G", "_", "S", "H", "I", "P", "S">>,
     <<"S", "H", "I", "P", "S", "_", "I", "N", "_", "P", "O", "S", "I", "T", "I", "O", "N">>,
     <<"S", "H", "O", "T">>,
     <<"H", "I", "T">>,
     <<"M", "I", "S", "S">>,
     <<"G", "A", "M", "E", "_", "O", "V", "E", "R">>,
     <<"E", "R", "R", "O", "R">>}

\* a str written between quotes with nothing escaped
Quote_Raw(s) == <<"\"">> \o s \o <<"\"">>

\* json.dumps of one character of a str (the strings here are ASCII and hold no
\* control character but the newline)
Escape(ch) ==
    CASE ch = "\"" -> <<"\\", "\"">>
      [] ch = "\\" -> <<"\\", "\\">>
      [] ch = "\n" -> <<"\\", "n">>
      [] OTHER -> <<ch>>

RECURSIVE EscapeAll(_)
EscapeAll(s) == IF s = <<>> THEN <<>> ELSE Escape(Head(s)) \o EscapeAll(Tail(s))
\* json.dumps of a str
Quote(s) == <<"\"">> \o EscapeAll(s) \o <<"\"">>

\* json.dumps of an int
IntRepr(n) == IF n < 0 THEN <<"-">> \o IntToStr(0 - n) ELSE IntToStr(n)

RECURSIVE Dumps(_), DumpItems(_, _)
\* json.dumps(v) with the default separators ', ' and ': '
Dumps(v) ==
    CASE v.tag = "null" -> <<"n", "u", "l", "l">>
      [] v.tag = "true" -> <<"t", "r", "u", "e">>
      [] v.tag = "false" -> <<"f", "a", "l", "s", "e">>
      [] v.tag = "int" -> IntRepr(v.n)
      [] v.tag = "str" -> Quote(v.s)
      [] v.tag = "list" -> <<"[">> \o DumpItems(v.items, FALSE) \o <<"]">>
      [] v.tag = "obj" -> <<"{">> \o DumpItems(v.items, TRUE) \o <<"}">>
DumpItems(items, keyed) ==
    IF items = <<>> THEN <<>>
    ELSE (IF keyed THEN Quote(Head(items).k) \o <<":", " ">> ELSE <<>>)
           \o Dumps(Head(items).v)
           \o (IF Len(items) > 1 THEN <<",", " ">> \o DumpItems(Tail(items), keyed)
               ELSE <<>>)

\* create_message(msg_type, data): msg_type is the value of the enum member
create_message(msg_type, data) ==
    Dumps(JObj(<<Member(TYPE_KEY, JStr(msg_type)),
                 Member(DATA_KEY, IF Falsy(data) THEN EmptyObj ELSE data)>>))
      \o <<"\n">>

\* whitespace of str.strip() and of JSON, as far as it occurs here
IsWs(ch) == ch \in {" ", "\n"}

RECURSIVE SkipWs(_, _)
\* the first position from i on that holds no whitespace
SkipWs(t, i) == IF i <= Len(t) /\ IsWs(t[i]) THEN SkipWs(t, i + 1) ELSE i

RECURSIVE Strip(_)
\* str.strip()
Strip(t) ==
    IF t # <<>> /\ IsWs(t[1]) THEN Strip(Tail(t))
    ELSE IF t # <<>> /\ IsWs(t[Len(t)]) THEN Strip(SubSeq(t, 1, Len(t) - 1))
    ELSE t

\* the outcome of a scan: the value and the position after it, or a
\* JSONDecodeError
DecodeError == [ok |-> FALSE, v |-> JNull, i |-> 0]
Decoded(v, i) == [ok |-> TRUE, v |-> v, i |-> i]

\* t holds word at position i
HasWord(t, i, word) ==
    /\ i + Len(word) - 1 <= Len(t)
    /\ SubSeq(t, i, i + Len(word) - 1) = word

RECURSIVE ScanString(_, _, _)
\* json.decoder.py_scanstring from position i, after the opening quote, with
\* the characters acc read so far (strict: a raw control character is an error;
\* no \u escape occurs in the texts decoded here)
ScanString(t, i, acc) ==
    IF i > Len(t) THEN DecodeError
    ELSE IF t[i] = "\"" THEN Decoded(JStr(acc), i + 1)
    ELSE IF t[i] = "\n" THEN DecodeError
    ELSE IF t[i] # "\\" THEN ScanString(t, i + 1, Append(acc, t[i]))
    ELSE IF i + 1 > Len(t) THEN DecodeError
    ELSE IF t[i + 1] \in {"\"", "\\", "/"}
         THEN ScanString(t, i + 2, Append(acc, t[i + 1]))
    ELSE IF t[i + 1] = "n" THEN ScanString(t, i + 2, Append(acc, "\n"))
    ELSE DecodeError

RECURSIVE DigitsEnd(_, _)
\* the first position from i on that holds no decimal digit
DigitsEnd(t, i) ==
    IF i <= Len(t) /\ Contains(DIGITS, t[i]) THEN DigitsEnd(t, i + 1) ELSE i

\* json.scanner NUMBER_RE at position i, for integers: -?(0|[1-9]\d*)
ScanNumber(t, i) ==
    LET neg == i <= Len(t) /\ t[i] = "-"
        first == IF neg THEN i + 1 ELSE i
        last == IF first <= Len(t) /\ t[first] = "0" THEN first + 1
                ELSE DigitsEnd(t, first)
    IN  IF last = first THEN DecodeError
        ELSE Decoded(JInt((IF neg THEN -1 ELSE 1)
                            * DigitsValue(SubSeq(t, first, last - 1))), last)

RECURSIVE ScanValue(_, _), ScanMembers(_, _, _), ScanItems(_, _, _)
\* json.scanner scan_once at position i
ScanValue(t, i) ==
    IF i > Len(t) THEN DecodeError
    ELSE IF t[i] = "\"" THEN ScanString(t, i + 1, <<>>)
    ELSE IF t[i] = "{"
         THEN LET j == SkipWs(t, i + 1) IN
              IF j <= Len(t) /\ t[j] = "}" THEN Decoded(EmptyObj, j + 1)
              ELSE ScanMembers(t, j, <<>>)
    ELSE IF t[i] = "["
         THEN LET j == SkipWs(t, i + 1) IN
              IF j <= Len(t) /\ t[j] = "]" THEN Decoded(JList(<<>>), j + 1)
              ELSE ScanItems(t, j, <<>>)
    ELSE IF HasWord(t, i, <<"n", "u", "l", "l">>) THEN Decoded(JNull, i + 4)
    ELSE IF HasWord(t, i, <<"t", "r", "u", "e">>) THEN Decoded(JBool(TRUE), i + 4)
    ELSE IF HasWord(t, i, <<"f", "a", "l", "s", "e">>) THEN Decoded(JBool(FALSE), i + 5)
    ELSE ScanNumber(t, i)

\* json.decoder.JSONObject from the position i of a key, with the members acc
ScanMembers(t, i, acc) ==
    IF i > Len(t) \/ t[i] # "\"" THEN DecodeError
    ELSE LET key == ScanString(t, i + 1, <<>>) IN
         IF ~key.ok THEN DecodeError
         ELSE LET c == SkipWs(t, key.i) IN
              IF c > Len(t) \/ t[c] # ":" THEN DecodeError
              ELSE LET val == ScanValue(t, SkipWs(t, c + 1)) IN
                   IF ~val.ok THEN DecodeError
                   ELSE LET e == SkipWs(t, val.i)
                            now == SetMember(acc, key.v.s, val.v)
                        IN  IF e > Len(t) THEN DecodeError
                            ELSE IF t[e] = "}" THEN Decoded(JObj(now), e + 1)
                            ELSE IF t[e] = ","
                                 THEN ScanMembers(t, SkipWs(t, e + 1), now)
                            ELSE DecodeError

\* json.decoder.JSONArray from the position i of an element, with the elements acc
ScanItems(t, i, acc) ==
    LET val == ScanValue(t, i) IN
    IF ~val.ok THEN DecodeError
    ELSE LET e == SkipWs(t, val.i)
             now == Append(acc, Item(val.v))
         IN  IF e > Len(t) THEN DecodeError
             ELSE IF t[e] = "]" THEN Decoded(JList(now), e + 1)
             ELSE IF t[e] = "," THEN ScanItems(t, SkipWs(t, e + 1), now)
             ELSE DecodeError

\* json.loads(t): one value, with whitespace around it and nothing else
Loads(t) ==
    LET r == ScanValue(t, SkipWs(t, 1)) IN
    IF r.ok /\ SkipWs(t, r.i) = Len(t) + 1 THEN r ELSE DecodeError

\* what parse_message does: it returns (msg_type, data), or raises
Returned(msg_type, data) == [outcome |-> "returned", type |-> msg_type, data |-> data]
Raised(error) == [outcome |-> error, type |-> <<>>, data |-> JNull]

\* parse_message: json.loads raises JSONDecodeError; parsed["type"] raises
\* TypeError when parsed is no dict (a list, str, int, bool or None) and KeyError
\* when the dict has no "type"; MessageType(..) raises ValueError for what is no
\* value of the enum. JSONDecodeError, KeyError and ValueError are turned into
\* InvalidMessageError; TypeError is not caught.
parse_message(message) ==
    LET r == Loads(Strip(message)) IN
    IF ~r.ok THEN Raised("InvalidMessageError")
    ELSE IF r.v.tag # "obj" THEN Raised("TypeError")
    ELSE IF ~HasKey(r.v, TYPE_KEY) THEN Raised("InvalidMessageError")
    ELSE IF ~(GetMember(r.v, TYPE_KEY).tag = "str"
                /\ GetMember(r.v, TYPE_KEY).s \in MessageTypes)
         THEN Raised("InvalidMessageError")
    ELSE Returned(GetMember(r.v, TYPE_KEY).s,
                  IF HasKey(r.v, DATA_KEY) THEN GetMember(r.v, DATA_KEY)
                  ELSE EmptyObj)

\* the payloads create_message is applied to: none, the empty dict, and dicts
\* with the keys of the protocol
COORDINATE_KEY == <<"c", "o", "o", "r", "d", "i", "n", "a", "t", "e">>
SCORE_KEY == <<"s", "c", "o", "r", "e">>
MESSAGE_KEY == <<"m", "e", "s", "s", "a", "g", "e">>
PayloadStrings == {<<"A", "1">>, <<>>, <<"A", "\n">>, <<"\"", "\\">>, <<"I", "n", "v", "a", "l", "i", "d", " ", "c", "o", "o", "r", "d", "i", "n", "a", "t", "e">>}
PayloadInts == {0, 17, -3}
Payloads ==
    {JNull, EmptyObj}
      \cup {JObj(<<Member(COORDINATE_KEY, JStr(s))>>) : s \in PayloadStrings}
      \cup {JObj(<<Member(SCORE_KEY, JInt(n))>>) : n \in PayloadInts}
      \cup {JObj(<<Member(MESSAGE_KEY, JStr(s)), Member(SCORE_KEY, JInt(17))>>) :
              s \in PayloadStrings}
      \cup {JObj(<<Member(COORDINATE_KEY, JNull),
                   Member(MESSAGE_KEY, JList(<<Item(JBool(TRUE)), Item(EmptyObj)>>))>>)}

\* the texts parse_message is applied to: every part of a frame
\* create_message makes that starts at its first or second character, and
\* texts that are no frame
Frames == {create_message(t, p) : t \in {<<"S", "H", "O", "T">>, <<"G", "A", "M", "E", "_", "O", "V", "E", "R">>}, p \in Payloads}
OtherTexts ==
    {<<>>, <<"x">>, <<"[", "]">>, <<"1">>, <<"-", "1", "2">>, <<"\"", "x", "\"">>, <<"n", "u", "l", "l">>, <<"t", "r", "u", "e">>, <<"f", "a", "l", "s", "e">>, <<"{", "}">>, <<" ", "{", "}", " ">>,
     <<"{", "\"", "t", "y", "p", "e", "\"", ":", " ", "\"", "N", "O", "P", "E", "\"", "}">>, <<"{", "\"", "t", "y", "p", "e", "\"", ":", " ", "[", "]", "}">>, <<"{", "\"", "t", "y", "p", "e", "\"", ":", " ", "4", "}">>, <<"{", "\"", "t", "y", "p", "e", "\"", ":", "\"", "S", "H", "O", "T", "\"", "}">>,
     <<"{", "\"", "t", "y", "p", "e", "\"", ":", " ", "\"", "S", "H", "O", "T", "\"", ",", " ", "\"", "d", "a", "t", "a", "\"", ":", " ", "n", "u", "l", "l", "}">>, <<"{", "\"", "t", "y", "p", "e", "\"", ":", " ", "\"", "S", "H", "O", "T", "\"", "}", " ", "x">>,
     <<"{", "\"", "t", "y", "p", "e", "\"", ":", " ", "\"", "H", "I", "T", "\"", ",", " ", "\"", "t", "y", "p", "e", "\"", ":", " ", "\"", "M", "I", "S", "S", "\"", "}">>, <<"{", "\"", "d", "a", "t", "a", "\"", ":", " ", "{", "}", ",", " ", "\"", "t", "y", "p", "e", "\"", ":", " ", "\"", "H", "I", "T", "\"", "}">>,
     <<"{", "\"", "t", "y", "p", "e", "\"", ":", " ", "\"", "S", "H", "O", "T", "\"", ",", " ", "\"", "d", "a", "t", "a", "\"", ":", " ", "{", "\"", "c", "o", "o", "r", "d", "i", "n", "a", "t", "e", "\"", ":", " ", "\"", "Z", "9", "\"", "}", "}">>, <<"{", "\"", "t", "y", "p", "e", "\"", ":", " ", "\"", "S", "H", "O", "T", "\"", ",", "}">>,
     <<"[", "{", "\"", "t", "y", "p", "e", "\"", ":", " ", "\"", "S", "H", "O", "T", "\"", "}", "]">>, <<"{", "\"", "t", "y", "p", "e", "\"", ":", " ", "\"", "s", "h", "o", "t", "\"", "}">>, <<"{", "\"", "T", "y", "p", "e", "\"", ":", " ", "\"", "S", "H", "O", "T", "\"", "}">>,
     <<"{", "\"", "t", "y", "p", "e", "\"", ":", " ", "\"", "E", "R", "R", "O", "R", "\"", ",", " ", "\"", "d", "a", "t", "a", "\"", ":", " ", "7", "}">>, <<"0", "1">>}
ParseTexts ==
    OtherTexts
      \cup UNION {{SubSeq(f, a, b) : a \in 1 .. (MaxCut + 1), b \in MaxCut .. Len(f)} :
                    f \in Frames}

\* nothing was applied yet
NoMessage == [op |-> "none", type |-> <<>>, data |-> JNull, text |-> <<>>]
NoResult == [ran |-> FALSE, text |-> <<>>, parsed |-> Raised("none")]

\* parse_message(create_message(msg_in.type, msg_in.data))
Msg_Create ==
    /\ msg_in.op = "create"
    /\ ~msg_out.ran
    /\ LET frame == create_message(msg_in.type, msg_in.data) IN
       msg_out' = [ran |-> TRUE, text |-> frame, parsed |-> parse_message(frame)]
    /\ UNCHANGED msg_in
    /\ UNCHANGED gbVars
    /\ UNCHANGED envVars
    /\ UNCHANGED srvVars
    /\ UNCHANGED <<coord_in, coord_out>>
    /\ UNCHANGED cliVars

\* parse_message(msg_in.text)
Msg_Parse ==
    /\ msg_in.op = "parse"
    /\ ~msg_out.ran
    /\ msg_out' = [ran |-> TRUE, text |-> msg_in.text,
                   parsed |-> parse_message(msg_in.text)]
    /\ UNCHANGED msg_in
    /\ UNCHANGED gbVars
    /\ UNCHANGED envVars
    /\ UNCHANGED srvVars
    /\ UNCHANGED <<coord_in, coord_out>>
    /\ UNCHANGED cliVars

\* the objects no specification has constructed yet
IdleBoard ==
    /\ gameboard = NewGameBoard
    /\ gb_pc = "idle"
    /\ gb_ship = 1
    /\ gb_calls = 0
    /\ gb_call = NoCall
IdleServer ==
    /\ srv_pc = "idle"
    /\ game = NewBattleship
    /\ srv_ship = 1
    /\ conn_open = FALSE
    /\ srv_recv = <<>>
    /\ reply = <<>>
    /\ sent = NothingSent
    /\ valid_shots = 0
IdleCoord ==
    /\ coord_in = <<>>
    /\ coord_out = NotRun
IdleMessage ==
    /\ msg_in = NoMessage
    /\ msg_out = NoResult
IdleClient ==
    /\ cli_pc = "idle"
    /\ cli_game = NewClientGame
    /\ cli_open = FALSE
    /\ backlog = 0
    /\ c2s = <<>>
    /\ s2c = <<>>
    /\ cli_auto = FALSE
    /\ cli_coord = <<>>
    /\ cli_msg = <<>>
    /\ cli_resp = <<>>
    /\ cli_typed = NoneTyped
    /\ c2s_frames = <<>>
    /\ s2c_frames = <<>>

\* a GameBoard after __init__, with a caller about to place the ships and shoot
InitBoard ==
    /\ gameboard = NewGameBoard
    /\ gb_pc = "position"
    /\ gb_ship = 1
    /\ gb_calls = 0
    /\ gb_call = NoCall
    /\ shots \in Shuffles
    /\ shot_index = 0
    /\ IdleServer
    /\ IdleCoord
    /\ IdleMessage
    /\ IdleClient

NextBoard == GB_PositionShip \/ GB_FreshShot \/ GB_RepeatShot

SpecBoard == InitBoard /\ [][NextBoard]_vars

\* the server process after BattleshipServer.__init__, inside run()
InitServer ==
    /\ IdleBoard
    /\ shots \in Shuffles
    /\ shot_index = 0
    /\ srv_pc = "accept"
    /\ game = NewBattleship
    /\ srv_ship = 1
    /\ conn_open = FALSE
    /\ srv_recv = <<>>
    /\ reply = <<>>
    /\ sent = NothingSent
    /\ valid_shots = 0
    /\ IdleCoord
    /\ IdleMessage
    /\ IdleClient

NextServer ==
    \/ Srv_Accept
    \/ Srv_PositionShip
    \/ Srv_RecvStart
    \/ Srv_RecvBadStart
    \/ Srv_RecvFreshShot
    \/ Srv_RecvRepeatShot
    \/ Srv_RecvBadShot
    \/ Srv_RecvClose

SpecServer == InitServer /\ [][NextServer]_vars

\* a GameBoard about to run position_ships, or a server Battleship inside
\* __init__ about to run position_ships; nothing else runs
InitPlace ==
    \/ InitBoard
    \/ /\ IdleBoard
       /\ shots \in Shuffles
       /\ shot_index = 0
       /\ srv_pc = "position"
       /\ game = NewBattleship
       /\ srv_ship = 1
       /\ conn_open = FALSE
       /\ srv_recv = <<>>
       /\ reply = <<>>
       /\ sent = NothingSent
       /\ valid_shots = 0
       /\ IdleCoord
       /\ IdleMessage
       /\ IdleClient

GB_PlaceShip == GB_position_ships_step(PlaceInts)
Srv_PlaceShip == Srv_position_ships_step(PlaceInts)

NextPlace == GB_PlaceShip \/ Srv_PlaceShip

SpecPlace == InitPlace /\ [][NextPlace]_vars

\* a string about to be validated
InitCoord ==
    /\ IdleBoard
    /\ IdleServer
    /\ shots \in Shuffles
    /\ shot_index = 0
    /\ coord_in \in TestStrings
    /\ coord_out = NotRun
    /\ IdleMessage
    /\ IdleClient

NextCoord == Validate

SpecCoord == InitCoord /\ [][NextCoord]_vars

\* one client process in play() and the server process inside run(), up to
\* the end of the handshake
InitHandshake ==
    /\ IdleBoard
    /\ IdleCoord
    /\ IdleMessage
    /\ shots \in Shuffles
    /\ shot_index = 0
    /\ srv_pc = "accept"
    /\ game = NewBattleship
    /\ srv_ship = 1
    /\ conn_open = FALSE
    /\ srv_recv = <<>>
    /\ reply = <<>>
    /\ sent = NothingSent
    /\ valid_shots = 0
    /\ cli_pc = "start_game"
    /\ cli_game = NewClientGame
    /\ cli_open = TRUE
    /\ backlog = 0
    /\ c2s = <<>>
    /\ s2c = <<>>
    /\ cli_auto = TRUE
    /\ cli_coord = <<>>
    /\ cli_msg = <<>>
    /\ cli_resp = <<>>
    /\ cli_typed = NoneTyped
    /\ c2s_frames = <<>>
    /\ s2c_frames = <<>>

NextHandshake ==
    \/ Cli_Start
    \/ Cli_RecvPositioning
    \/ Cli_RecvInPosition
    \/ Cli_RecvReset
    \/ Ses_Accept
    \/ Srv_PositionShip
    \/ Ses_RecvStart
    \/ Ses_RecvCoord
    \/ Ses_RecvReset

SpecHandshake == InitHandshake /\ [][NextHandshake]_vars

\* a message type and a payload handed to create_message, whose frame is
\* handed to parse_message; or a text handed to parse_message
InitMessage ==
    /\ IdleBoard
    /\ IdleServer
    /\ IdleCoord
    /\ IdleClient
    /\ shots \in Shuffles
    /\ shot_index = 0
    /\ msg_in \in {[op |-> "create", type |-> t, data |-> p, text |-> <<>>] :
                      t \in MessageTypes, p \in Payloads}
                  \cup {[op |-> "parse", type |-> <<>>, data |-> JNull, text |-> t] :
                          t \in ParseTexts}
    /\ msg_out = NoResult

NextMessage == Msg_Create \/ Msg_Parse

SpecMessage == InitMessage /\ [][NextMessage]_vars

\* a client that has not connected yet, with all else untouched
FreshClient ==
    /\ cli_pc = "start_game"
    /\ cli_game = NewClientGame
    /\ cli_open = TRUE
    /\ backlog = 0
    /\ c2s = <<>>
    /\ s2c = <<>>
    /\ cli_auto \in BOOLEAN
    /\ cli_coord = <<>>
    /\ cli_msg = <<>>
    /\ cli_resp = <<>>
    /\ cli_typed = NoneTyped
    /\ c2s_frames = <<>>
    /\ s2c_frames = <<>>
    /\ shots \in Shuffles
    /\ shot_index = 0
    /\ game = NewBattleship
    /\ srv_ship = 1
    /\ conn_open = FALSE
    /\ srv_recv = <<>>
    /\ reply = <<>>
    /\ sent = NothingSent
    /\ valid_shots = 0
    /\ IdleBoard
    /\ IdleCoord
    /\ IdleMessage

\* one client process in play(), in auto mode or with a user, and a peer that
\* sends what it likes
InitClient == FreshClient /\ srv_pc = "peer"

NextClient ==
    \/ Cli_Start
    \/ Cli_RecvPositioning
    \/ Cli_RecvInPosition
    \/ Cli_RecvReset
    \/ Cli_AutoShot
    \/ Cli_TypedShot
    \/ Cli_Interrupt
    \/ Cli_RecvReply
    \/ Peer_Accept
    \/ Peer_Send
    \/ Peer_Close

SpecClient == InitClient /\ [][NextClient]_vars

\* one client process in play() and the server process inside run()
InitSession == FreshClient /\ srv_pc = "accept"

Ses_PositionShip == Srv_position_ships_step(SessionInts)

NextSession ==
    \/ Cli_Start
    \/ Cli_RecvPositioning
    \/ Cli_RecvInPosition
    \/ Cli_RecvReset
    \/ Cli_AutoShot
    \/ Cli_TypedShot
    \/ Cli_Interrupt
    \/ Cli_RecvReply
    \/ Cli_GameOver
    \/ Cli_RecvScore
    \/ Ses_Accept
    \/ Ses_PositionShip
    \/ Ses_RecvStart
    \/ Ses_RecvCoord
    \/ Ses_RecvReset

SpecSession == InitSession /\ [][NextSession]_vars

\* the same, with both processes scheduled and the transport delivering: a
\* step is taken as long as one is possible. A draw of position_ships that
\* does not fit changes nothing, so the placement loop is not retried forever.
SessionFair == InitSession /\ [][NextSession]_vars /\ WF_vars(NextSession)

\* the board with its caller, or the server with its peer
Init == InitBoard \/ InitServer
Next == NextBoard \/ NextServer
Spec == Init /\ [][Next]_vars

(***************************************************************************)
(* Properties                                                              *)
(***************************************************************************)
\* a straight run of n cells from (x, y): along the second index ("H") or
\* along the first ("V")
StraightRun(x, y, n, d) ==
    IF d = "H" THEN {<<x, y + j>> : j \in 0 .. (n - 1)}
               ELSE {<<x + j, y>> : j \in 0 .. (n - 1)}
\* the straight runs of n cells that lie in the set S of cells
RunsInside(n, S) ==
    {r \in {StraightRun(x, y, n, d) : x \in Indices, y \in Indices, d \in Directions} :
        r \subseteq S}
\* S is 14 cells of the grid made of runs of 5, 4, 3 and 2 cells that share no cell
IsFleet(S) ==
    /\ S \subseteq Cells
    /\ Cardinality(S) = 14
    /\ \E r5 \in RunsInside(5, S), r4 \in RunsInside(4, S),
          r3 \in RunsInside(3, S), r2 \in RunsInside(2, S) :
         /\ r5 \cap r4 = {} /\ r5 \cap r3 = {} /\ r5 \cap r2 = {}
         /\ r4 \cap r3 = {} /\ r4 \cap r2 = {} /\ r3 \cap r2 = {}
         /\ r5 \cup r4 \cup r3 \cup r2 = S
CellsAt(board, value) == {c \in Cells : At(board, c) = value}
\* the run a placed ship of the GameBoard records
RecordedRun(ship) ==
    StraightRun(ship.position[1], ship.position[2], ship.size, ship.direction)

\* C1: after position_ships, whatever was drawn, the board holds exactly 14
\* SHIP cells: four straight contiguous runs of 5, 4, 3 and 2 cells inside the
\* 9x9 grid that share no cell (the GameBoard's are the runs its ships record),
\* and every other cell is empty.
C1_PlacedFleet ==
    /\ gb_pc = "shots" =>
         /\ IsFleet(CellsAt(gameboard.board, SHIP))
         /\ \A c \in Cells : At(gameboard.board, c) \in {EMPTY, SHIP}
         /\ \A k \in {"C", "H", "L", "A"} :
              /\ gameboard.ships[k].position \in Cells
              /\ gameboard.ships[k].direction \in Directions
              /\ RecordedRun(gameboard.ships[k]) \subseteq CellsAt(gameboard.board, SHIP)
         /\ \A k1, k2 \in {"C", "H", "L", "A"} :
              k1 # k2 => RecordedRun(gameboard.ships[k1])
                             \cap RecordedRun(gameboard.ships[k2]) = {}
    /\ srv_pc = "recv_start" =>
         /\ IsFleet(CellsAt(game.board, 1))
         /\ \A c \in Cells : At(game.board, c) \in {0, 1}

\* C1: a placement in which a draw overlapping an earlier ship was possible:
\* the 5-ship lies along the first index from (0, 0) and the 4-ship along the
\* second index in the same row band
C1_Witness ==
    /\ gb_pc = "shots"
    /\ gameboard.ships["C"].position = <<0, 0>>
    /\ gameboard.ships["C"].direction = "V"
    /\ gameboard.ships["H"].position = <<3, 3>>
    /\ gameboard.ships["H"].direction = "H"

\* C2: process_shot called twice in a row at the same coordinate changes
\* hit_count and the board only on the first call, returns (false, false) on
\* the second, and leaves shot_count 2 higher than before the first call.
C2_RepeatIsTallied ==
    [][(gb_calls >= 1 /\ gb_calls' = gb_calls + 1 /\ gb_call'.coord = gb_call.coord)
          => /\ gameboard'.hit_count = gameboard.hit_count
             /\ gameboard'.board = gameboard.board
             /\ gb_call'.ret = <<FALSE, FALSE>>
             /\ GB_get_score(gameboard') = gb_call.score_before + 2]_vars

\* C3: a valid shot at a coordinate fired earlier in the session leaves
\* hit_count and the board as they were, is answered MISS and raises shot_count
\* by one; shot_count is the number of valid shots received, and the score the
\* server sends is that number.
C3_Step ==
    (/\ srv_pc = "recv_coord"
     /\ valid_shots' = valid_shots + 1
     /\ \E i \in 1 .. shot_index : srv_recv' = Line(shots[i]))
    => /\ game'.hit_count = game.hit_count
       /\ game'.board = game.board
       /\ reply' = <<MISS_REPLY>>
       /\ game'.shot_count = game.shot_count + 1
C3_State ==
    /\ game.shot_count = valid_shots
    /\ sent["score"] > 0 => reply[Len(reply)] = IntToStr(valid_shots)
C3_RepeatedShotCounts == []C3_State /\ [][C3_Step]_vars

\* C3: the server has just answered a second shot at a cell it had marked hit
C3_Witness ==
    /\ srv_pc = "recv_coord"
    /\ shot_index > 0
    /\ valid_shots = shot_index + 1
    /\ srv_recv = Line(shots[shot_index])
    /\ Srv_get_value_at(game, shots[shot_index]) = -1
    /\ reply = <<MISS_REPLY>>

\* C4: after placement the game is over exactly when hit_count is 14, hit_count
\* never exceeds 14, and a board whose game is over stays over under further
\* shots (GameBoard.is_game_over and the server's game_over).
C4_State ==
    /\ gb_pc = "shots" =>
         /\ GB_is_game_over(gameboard) <=> gameboard.hit_count = 14
         /\ gameboard.hit_count <= 14
    /\ srv_pc \in {"recv_start", "recv_coord", "accept"} =>
         /\ Srv_game_over(game) <=> game.hit_count = 14
         /\ game.hit_count <= 14
C4_Step ==
    /\ GB_is_game_over(gameboard) => GB_is_game_over(gameboard')
    /\ (Srv_game_over(game) /\ srv_pc' # "position") => Srv_game_over(game')
C4_GameOverAt14 == []C4_State /\ [][C4_Step]_vars

\* C4: a GameBoard whose game is over took one more shot (its latest call was
\* no hit)
C4_Witness ==
    /\ gb_pc = "shots"
    /\ GB_is_game_over(gameboard)
    /\ gb_calls > shot_index
    /\ gb_call.ret = <<FALSE, FALSE>>

\* C5: validate_coordinate returns true exactly for the two-character strings
\* made of a letter A..I or a..i and a digit 1..9.
C5_ValidatesExactly ==
    coord_out.ran =>
        (coord_out.protocol <=>
            /\ Len(coord_in) = 2
            /\ coord_in[1] \in {"A", "B", "C", "D", "E", "F", "G", "H", "I",
                                "a", "b", "c", "d", "e", "f", "g", "h", "i"}
            /\ coord_in[2] \in {"1", "2", "3", "4", "5", "6", "7", "8", "9"})

\* C6: on a connection POSITIONING SHIPS and SHIPS IN POSITION are sent at most
\* once each, only in the step that received START GAME as the first message
\* and always in it, as two payloads with POSITIONING SHIPS first; HIT, MISS or
\* a score is only ever sent once the acknowledgements were, and nothing else
\* is ever sent.
C6_State ==
    /\ sent["positioning"] <= 1
    /\ sent["in_position"] = sent["positioning"]
    /\ sent["hit"] + sent["miss"] + sent["score"] > 0 => sent["in_position"] = 1
    /\ sent["other"] = 0
    /\ srv_pc = "recv_coord" => sent["in_position"] = 1
C6_Step ==
    /\ (srv_pc = "recv_start" /\ srv_pc' # "recv_start" /\ srv_recv' = START_GAME)
         => /\ reply' = <<POSITIONING_SHIPS, SHIPS_IN_POSITION>>
            /\ sent'["positioning"] = 1
    /\ sent'["positioning"] > sent["positioning"]
         => /\ srv_pc = "recv_start"
            /\ srv_recv' = START_GAME
            /\ sent = NothingSent
    /\ srv_pc # "recv_start" =>
         \A i \in 1 .. Len(reply') :
            Kind(reply'[i]) \notin {"positioning", "in_position"}
C6_HandshakeOrder == []C6_State /\ [][C6_Step]_vars

\* C6: a session that has been through the handshake and answered shots
C6_Witness ==
    /\ srv_pc = "recv_coord"
    /\ sent["positioning"] = 1
    /\ sent["in_position"] = 1
    /\ sent["hit"] > 0
    /\ sent["miss"] > 0

\* C7: the score is sent exactly when the session's hit_count has reached 14,
\* once, after the HIT of the 14th hit, and it is shot_count; with it the
\* server closes the connection and returns, and on a closed connection
\* nothing more is sent or processed.
C7_State ==
    /\ sent["score"] = 1 <=> game.hit_count = 14
    /\ sent["score"] <= 1
    /\ sent["score"] = 1 =>
         /\ reply = <<HIT_REPLY, IntToStr(game.shot_count)>>
         /\ ~conn_open
         /\ srv_pc = "accept"
C7_Step ==
    (~conn_open /\ ~conn_open') =>
        /\ sent' = sent
        /\ reply' = reply
        /\ game' = game
        /\ valid_shots' = valid_shots
C7_ScoreAtGameOver == []C7_State /\ [][C7_Step]_vars

\* C7: a finished game in which more shots were needed than there are ship cells
C7_Witness ==
    /\ srv_pc = "accept"
    /\ sent["score"] = 1
    /\ game.hit_count = 14
    /\ game.shot_count > 14
    /\ valid_shots > shot_index

\* C8 as claimed: in the shot loop a line that is no coordinate is answered
\* with an error message and the session goes on: the connection stays open,
\* the server waits for the next shot, the game is unchanged.
C8_ErrorAndContinue ==
    [][(srv_pc = "recv_coord" /\ srv_recv' \in BadInputs)
          => /\ srv_pc' = "recv_coord"
             /\ conn_open'
             /\ Len(reply') = 1
             /\ Kind(reply'[1]) = "other"
             /\ game' = game]_vars

\* C8 amended: in the shot loop a line that is no coordinate makes the server
\* send nothing, leave the game (board, hit_count, shot_count) as it was, leave
\* the loop, close the connection and return to accept.
C8_InvalidShotCloses ==
    [][(srv_pc = "recv_coord" /\ srv_recv' \in BadInputs)
          => /\ reply' = <<>>
             /\ sent' = sent
             /\ game' = game
             /\ valid_shots' = valid_shots
             /\ ~conn_open'
             /\ srv_pc' = "accept"]_vars

\* C8: the server has closed a session on Z9 after it had answered shots
C8_Witness ==
    /\ srv_pc = "accept"
    /\ ~conn_open
    /\ srv_recv = <<"Z", "9", "\n">>
    /\ game.shot_count > 0
    /\ game.hit_count < 14

\* the server has ended the only session without having sent anything
BadStartClosed ==
    /\ srv_pc = "accept"
    /\ ~conn_open
    /\ backlog = 0
    /\ cli_pc # "start_game"
    /\ sent = NothingSent

\* C9 as stated: a first message other than START GAME makes the server send
\* one message that is neither acknowledgement, HIT, MISS nor score (an
\* ERROR) and then close the connection without entering the shot loop.
C9_ErrorThenClose ==
    [][(srv_pc = "recv_start" /\ srv_pc' # "crashed" /\ srv_recv' # START_GAME)
          => /\ Len(reply') = 1
             /\ Kind(reply'[1]) = "other"
             /\ ~conn_open'
             /\ srv_pc' = "accept"]_vars

C9_Step ==
    /\ (srv_pc = "recv_start" /\ srv_pc' # "crashed" /\ srv_recv' # START_GAME)
          => /\ reply' = <<>>
             /\ sent' = sent
             /\ s2c' = s2c
             /\ game' = game
             /\ valid_shots' = valid_shots
             /\ ~conn_open'
             /\ srv_pc' = "accept"
    /\ (BadStartClosed /\ cli_pc' # cli_pc)
          => /\ cli_pc' \in {"exited", "crashed"}
             /\ ~cli_open'

C9_State ==
    BadStartClosed
      => /\ s2c = <<>>
         /\ cli_pc \in {"recv_positioning", "exited", "crashed"}
         /\ cli_pc = "recv_positioning"
               => ENABLED (Cli_RecvPositioning \/ Cli_RecvReset)

\* C9 amended: a first message other than START GAME makes the server send
\* nothing at all (no ERROR, no acknowledgement), close the connection and
\* return to accept without entering the shot loop; the client, waiting for
\* POSITIONING SHIPS, then reads no bytes or a connection reset, never reaches
\* the shot loop, and ends.
C9_BadStartCloses == []C9_State /\ [][C9_Step]_vars

\* C9: the server closed on a first message that was not START GAME, and the
\* client, having read no bytes, closed its socket and exited
C9_Witness ==
    /\ BadStartClosed
    /\ srv_recv # START_GAME
    /\ srv_recv # <<>>
    /\ cli_pc = "exited"
    /\ ~cli_open

\* C10: a recv that returns no bytes, before START GAME or in the shot loop,
\* ends the session: nothing is sent, the game and the counts stay as they
\* were, no score is sent, the connection is closed and handle_client returns.
C10_DisconnectAbandons ==
    [][(srv_pc \in {"recv_start", "recv_coord"} /\ srv_pc' # srv_pc
            /\ srv_recv' = CloseInput)
          => /\ reply' = <<>>
             /\ sent' = sent
             /\ game' = game
             /\ valid_shots' = valid_shots
             /\ ~conn_open'
             /\ srv_pc' = "accept"]_vars

\* C10: the peer disconnected in the middle of a game
C10_Witness ==
    /\ srv_pc = "accept"
    /\ ~conn_open
    /\ srv_recv = CloseInput
    /\ sent["in_position"] = 1
    /\ game.hit_count > 0
    /\ game.hit_count < 14
    /\ sent["score"] = 0

\* the client process has ended, by sys.exit or by an exception
CliEnded == cli_pc \in {"exited", "crashed", "value_error", "assert_failed", "done"}

C11_State ==
    /\ cli_pc = "start_game" => c2s = <<>>
    /\ cli_pc \in {"recv_positioning", "recv_in_position"} => c2s = START_GAME
    /\ cli_pc = "recv_in_position" => cli_resp = POSITIONING_SHIPS

C11_Step ==
    /\ (cli_pc = "start_game" /\ cli_pc' # cli_pc)
          => cli_pc' = "recv_positioning" /\ cli_msg' = START_GAME
    /\ (cli_pc = "recv_positioning" /\ cli_pc' # cli_pc)
          => IF cli_pc' = "recv_in_position"
             THEN cli_resp' = POSITIONING_SHIPS
             ELSE cli_pc' \in {"exited", "crashed"} /\ ~cli_open' /\ c2s' = c2s
    /\ (cli_pc = "recv_in_position" /\ cli_pc' # cli_pc)
          => IF cli_pc' = "play"
             THEN cli_resp' = SHIPS_IN_POSITION
             ELSE cli_pc' \in {"exited", "crashed"} /\ ~cli_open' /\ c2s' = c2s
    /\ (cli_pc' = "play" /\ cli_pc \notin {"play", "recv_reply"})
          => cli_pc = "recv_in_position"
    /\ (Len(c2s') > Len(c2s) /\ cli_pc # "start_game")
          => cli_pc = "play" /\ cli_pc' = "recv_reply"
    /\ CliEnded => UNCHANGED <<cli_pc, cli_game, cli_open, c2s>>

\* C11: the client sends START GAME before anything else and enters its shot
\* loop only from the second recv of start_game, after the first returned
\* POSITIONING SHIPS and the second SHIPS IN POSITION; any other first or second
\* reply (a disconnect, the acknowledgements swapped, one repeated, a part of
\* one) ends the client with its socket closed, and an ended client sends
\* nothing: shots are sent from the loop only.
C11_HandshakeGate == []C11_State /\ [][C11_Step]_vars

\* C11: the peer sent POSITIONING SHIPS twice, and the client, having taken the
\* second for SHIPS IN POSITION's place, exited without having sent a shot
C11_Witness ==
    /\ cli_pc = "exited"
    /\ cli_resp = POSITIONING_SHIPS
    /\ sent["positioning"] = 2
    /\ sent["in_position"] = 0
    /\ c2s = START_GAME

\* a recv of the client, or of the server, returned bytes in this step
CliReceived == Len(s2c') < Len(s2c) /\ cli_pc' # "crashed"
SrvReceived == Len(c2s') < Len(c2s) /\ srv_pc' # "crashed"

\* C12: however the transport splits or joins the bytes in flight, every recv
\* of the client and of the server that returns bytes returns exactly one
\* payload as it was sent, the oldest not received yet; so two payloads sent
\* back to back are read by two recvs and a session is not ended by them.
C12_WholeFrames ==
    [][/\ CliReceived => (s2c_frames # <<>> /\ cli_resp' = Head(s2c_frames))
       /\ SrvReceived => (c2s_frames # <<>> /\ srv_recv' = Head(c2s_frames))]_vars

\* payload ends with a newline and holds no other
OneNewline(payload) ==
    /\ payload # <<>>
    /\ payload[Len(payload)] = "\n"
    /\ \A i \in 1 .. (Len(payload) - 1) : payload[i] # "\n"

\* C13: every payload the server or the client hands to send (START GAME, the
\* acknowledgements, a coordinate, HIT, MISS, the score) ends with a newline
\* and holds no other newline.
C13_NewlineTerminated ==
    [][/\ \A i \in 1 .. Len(reply') : OneNewline(reply'[i])
       /\ cli_msg' # <<>> => OneNewline(cli_msg')]_vars

\* the text is JSON for a dict with a "type" that is a value of MessageType
WellFormed(text) ==
    LET r == Loads(Strip(text)) IN
    /\ r.ok
    /\ r.v.tag = "obj"
    /\ HasKey(r.v, TYPE_KEY)
    /\ GetMember(r.v, TYPE_KEY).tag = "str"
    /\ GetMember(r.v, TYPE_KEY).s \in MessageTypes

\* C14: parse_message raises InvalidMessageError, and nothing else, for a text
\* that is no JSON, is JSON for something that is no dict with a "type", or
\* has a type outside the eight values; for every other text it returns, also
\* when the payload is missing or makes no sense for the type.
C14_OnlyInvalidMessageError ==
    (msg_in.op = "parse" /\ msg_out.ran)
      => msg_out.parsed.outcome =
           (IF WellFormed(msg_in.text) THEN "returned" ELSE "InvalidMessageError")

\* C15: for each of the eight types and each payload (none and the empty dict
\* count as the empty dict) the frame create_message makes holds exactly one
\* newline, its last character, and parse_message returns the type and the
\* payload from it.
C15_RoundTrip ==
    (msg_in.op = "create" /\ msg_out.ran)
      => /\ OneNewline(msg_out.text)
         /\ msg_out.parsed =
              Returned(msg_in.type,
                       IF msg_in.data \in {JNull, EmptyObj} THEN EmptyObj
                       ELSE msg_in.data)

\* C15: a frame was made and parsed for a payload with a string that holds a
\* quote and a backslash, and for one that holds a newline
C15_Witness ==
    /\ msg_in.op = "create"
    /\ msg_out.ran
    /\ msg_in.data.tag = "obj"
    /\ \E i \in 1 .. Len(msg_in.data.items) :
         /\ msg_in.data.items[i].v.tag = "str"
         /\ Contains(msg_in.data.items[i].v.s, "\n")

C16_State ==
    /\ Len(c2s_frames) <= 1
    /\ sent["hit"] + sent["miss"] = valid_shots
    /\ sent["score"] <= 1
    /\ cli_pc = "play" => (c2s = <<>> \/ cli_game.shot_count = 0)

C16_Step ==
    /\ (Len(c2s') > Len(c2s) /\ cli_pc = "play")
          => /\ c2s = <<>>
             /\ s2c = <<>>
             /\ srv_pc = "recv_coord"
             /\ valid_shots = cli_game.shot_count
             /\ cli_pc' = "recv_reply"
    /\ (srv_pc = "recv_coord" /\ valid_shots' = valid_shots + 1)
          => /\ reply' # <<>>
             /\ Kind(reply'[1]) \in {"hit", "miss"}
             /\ IF Kind(reply'[1]) = "hit" /\ game'.hit_count = TotalShipCells
                THEN Len(reply') = 2 /\ Kind(reply'[2]) = "score"
                ELSE Len(reply') = 1
    /\ (srv_pc = "recv_coord" /\ valid_shots' = valid_shots /\ srv_pc' # srv_pc)
          => reply' = <<>>

\* C16: in the shot loop the client sends a shot only when the server has
\* received and answered every earlier one and the client has processed the
\* answers, so at most one shot is ever unanswered; and the server, for each
\* valid shot it receives, sends exactly one HIT or MISS before its next recv,
\* followed by the score exactly when the shot was the 14th hit, and sends
\* nothing for anything else it receives.
C16_Alternation == []C16_State /\ [][C16_Step]_vars

\* C16: the client waits for the answer to its fourth or a later shot, which
\* the server has sent
C16_Witness ==
    /\ cli_pc = "recv_reply"
    /\ valid_shots >= 4
    /\ cli_game.shot_count = valid_shots - 1
    /\ Len(s2c_frames) = 1
    /\ c2s = <<>>

\* a letter A..I followed by a digit 1..9 and nothing else
IsCoordinate(str) == \E i \in 1 .. Len(AllCoords) : AllCoords[i] = str

\* the client obtained a coordinate in this step: from its list, or typed
CliObtained ==
    /\ cli_pc = "play"
    /\ (shot_index' # shot_index \/ cli_typed' # cli_typed)

\* C17: when the coordinate the client obtained for a turn is no letter A..I
\* followed by a digit 1..9, the client sends nothing, leaves its board,
\* shot_count and hit_count as they were and goes back to obtain another
\* coordinate; when it is one, the client sends it followed by a newline;
\* nothing else is ever sent as a shot.
C17_InvalidNotSent ==
    [][/\ (CliObtained /\ ~IsCoordinate(cli_coord'))
             => /\ c2s' = c2s
                /\ cli_msg' = <<>>
                /\ cli_game' = cli_game
                /\ cli_pc' = "play"
                /\ cli_open' = cli_open
       /\ (CliObtained /\ IsCoordinate(cli_coord'))
             => /\ c2s' = c2s \o cli_coord' \o <<"\n">>
                /\ cli_msg' = cli_coord' \o <<"\n">>
                /\ cli_game' = cli_game
       /\ (Len(c2s') > Len(c2s) /\ cli_pc # "start_game")
             => CliObtained /\ IsCoordinate(cli_coord')]_vars

\* C17: after a first shot was answered the user typed Z9, and the client is
\* back at the prompt with nothing more sent and its counts as they were
C17_Witness ==
    /\ cli_pc = "play"
    /\ ~cli_auto
    /\ cli_coord = <<"Z", "9">>
    /\ cli_typed = [plan |-> 1, off |-> 1]
    /\ cli_game.shot_count = 1
    /\ Len(c2s) = Len(START_GAME) + 3

C18_Step ==
    /\ (srv_pc \in {"recv_start", "recv_coord"} /\ srv_pc' \notin {"recv_start", "recv_coord"})
          => srv_pc' = "accept" /\ ~conn_open'
    /\ (srv_pc = "accept" /\ srv_pc' # srv_pc)
          => /\ srv_pc' = "position"
             /\ game' = NewBattleship
             /\ sent' = NothingSent
             /\ valid_shots' = 0
    /\ (srv_pc = "position" /\ srv_pc' = "recv_start")
          => /\ IsFleet(CellsAt(game'.board, 1))
             /\ game'.shot_count = 0
             /\ game'.hit_count = 0

\* C18: however a session ends, the server closes its connection and is back
\* at accepting the next one (the server process never ends with a session);
\* and each session starts from a new Battleship with a freshly placed fleet,
\* shot_count = hit_count = 0 and nothing counted from earlier sessions.
C18_BackToAccept == [](srv_pc # "crashed") /\ [][C18_Step]_vars

\* the client has processed a HIT or MISS in this step and is back at the loop test
TurnBoundary == cli_pc = "recv_reply" /\ cli_pc' = "play"

\* C19: in a session of this client with this server, whenever the client has
\* processed a reply its shot_count and hit_count are the server's, repeats
\* included, so that the client leaves its loop exactly when the server left
\* its own; when the server has sent the score, the client ends by taking it
\* for its own score: it neither ends otherwise nor fails the assertion.
C19_ScoresAgree ==
    /\ [](cli_pc # "assert_failed")
    /\ []((sent["score"] = 1 /\ CliEnded) => cli_pc = "done")
    /\ [][TurnBoundary
            => /\ cli_game'.shot_count = game.shot_count
               /\ cli_game'.hit_count = game.hit_count
               /\ Cli_game_over(cli_game') <=> Srv_game_over(game)]_vars

\* C20: a client in auto mode never reads past the end of its list, and its
\* session always comes to the state where the game is over after 14 to 81
\* shots, the score was sent and read, and client and server have both closed.
C20_AutoFinishes ==
    /\ [](cli_auto => (shot_index <= Len(shots) /\ cli_game.shot_count <= Len(shots)))
    /\ (cli_auto
          => <>(/\ cli_pc = "done"
                /\ ~cli_open
                /\ srv_pc = "accept"
                /\ ~conn_open
                /\ sent["score"] = 1
                /\ s2c = <<>>
                /\ game.shot_count \in TotalShipCells .. Len(shots)
                /\ Srv_game_over(game)))

\* the server holds a Battleship whose position_ships has returned: it is in a
\* session past placement, or back in accept with the game of the session
\* that ended
SrvPlaced ==
    \/ srv_pc \in {"recv_start", "recv_coord"}
    \/ srv_pc = "accept" /\ game # NewBattleship

\* C21: in every state after placement, under any sequence of shots, the
\* number of cells still holding a ship plus hit_count is 14 and
\* 0 <= hit_count <= shot_count; no shot turns a cell into a ship cell and no
\* shot lowers shot_count. This holds for GameBoard.process_shot and for the
\* shot loop of the server.
C21_State ==
    /\ gb_pc = "shots" =>
         /\ Cardinality(CellsAt(gameboard.board, SHIP)) + gameboard.hit_count = 14
         /\ 0 <= gameboard.hit_count
         /\ gameboard.hit_count <= gameboard.shot_count
    /\ SrvPlaced =>
         /\ Cardinality(CellsAt(game.board, 1)) + game.hit_count = 14
         /\ 0 <= game.hit_count
         /\ game.hit_count <= game.shot_count
C21_Step ==
    /\ gb_pc = "shots" =>
         /\ CellsAt(gameboard'.board, SHIP) \subseteq CellsAt(gameboard.board, SHIP)
         /\ gameboard'.shot_count >= gameboard.shot_count
    /\ srv_pc = "recv_coord" =>
         /\ CellsAt(game'.board, 1) \subseteq CellsAt(game.board, 1)
         /\ game'.shot_count >= game.shot_count
C21_ShotInvariants == []C21_State /\ [][C21_Step]_vars

\* C21: in the shot loop the server has answered hits, misses and a repeated
\* shot at a cell it had marked hit, and ships remain
C21_Witness ==
    /\ srv_pc = "recv_coord"
    /\ game.hit_count >= 2
    /\ game.shot_count > game.hit_count + 1
    /\ valid_shots > shot_index
    /\ Srv_get_value_at(game, shots[shot_index]) = -1
    /\ CellsAt(game.board, 1) # {}

=============================================================================
